---------------------------- MODULE Spec2Model ----------------------------
(***************************************************************************)
(* Model of the messaging core of av3k6/redmond: the useConversations hook *)
(* (fetchConversations, createConversation), the useMessaging facade       *)
(* (subscription effect, handleSelectConversation, handleSendMessage) and  *)
(* the conversation view's send handler, running in two client processes   *)
(* against one shared store.  Every await of the source is a point where   *)
(* other handlers and other clients may run, so every store call is split  *)
(* into the step that issues it, the step in which the store executes it   *)
(* and the step in which the client continues with the response.           *)
(***************************************************************************)
EXTENDS Integers, Sequences, FiniteSets, TLC

\* ------------------------------------------------------------------ bounds
MaxClock == 3      \* timestamps handed out (conversation creations, messages)
MaxFetch == 4      \* conversation-list requests one client issues
MaxFeed  == 2      \* change notifications waiting for one client's handler
MaxMsgs  == 2      \* messages sent
MaxMsgFetch == 3   \* message-list requests one client issues
MaxFiles == 2      \* attachments of one send

\* ------------------------------------------------------------- identities
Clients == {"c1", "c2"}
Users   == {"u1", "u2", "u3"}

UserOf(c) == IF c = "c1" THEN "u1" ELSE "u2"

\* invocations of sendMessage: one slot per client, and a second one of c2
\* (nothing in handleSendMessage keeps a client to one call at a time)
SendCalls == Clients \cup {"c2b"}

\* the hook instance (client) an invocation runs in
HookOf(s) == IF s = "c2b" THEN "c2" ELSE s

Null     == "null"        \* SQL NULL / JavaScript null
Absent   == "undefined"   \* an optional argument that was not passed
EmptyStr == ""
Blank    == " "           \* a text of white space only
Text     == "hello"
Contents == {EmptyStr, Blank, Text}
Props    == {"p1", Absent}

NoId  == 0               \* no conversation (a null result)
NoRow == [id |-> NoId]   \* currentConversation: null

VARIABLES
    convs,      \* store: rows of table conversations
    msgs,       \* store: rows of table messages
    uniqueKey,  \* store schema: a uniqueness constraint on the dedup key
    nextId,     \* store: next conversation id
    now,        \* wall clock
    st,         \* st[c]: state of useConversations (loading, conversations, currentConversation)
    cc,         \* cc[c]: the createConversation call of client c
    fetches,    \* fetches[c]: conversation-list requests in flight
    nreq,       \* nreq[c]: requests issued so far
    applied,    \* applied[c]: number of the request whose response was applied last
    chan,       \* chan[c]: state of the conversations change channel
    feed,       \* feed[c]: notifications delivered to the channel, not yet handled
    mounted,    \* mounted[c]: the hook's effects have run
    mf,         \* mf[c]: message-list requests of useMessages.fetchMessages
    mreq,       \* mreq[c]: message-list requests issued so far
    messages,   \* messages[c]: the displayed message list
    reads,      \* reads[c]: markMessagesAsRead calls in flight
    sc,         \* sc[s]: the sendMessage invocation in slot s
    effDep      \* effDep[c]: currentConversation?.id at the last run of the effect

msgVars == <<mf, mreq, messages, reads, sc, effDep>>

VARIABLES
    hc,         \* hc[c]: the handleCreateConversation call of client c
    dc,         \* dc[c]: the handleDeleteConversation call of client c
    signedIn,   \* signedIn[c]: useAuth() of client c returns a user
    lastRead,   \* store: [conv, user, at, late, ahead] of every markRead served
    fc          \* fc[c]: a call of the exported fetchConversations by the page

VARIABLES
    vs,         \* vs[c]: ConversationView of client c (isSending, selectedFiles, its send)
    tables,     \* store schema: the tables conversations and messages exist
    channels    \* channels[c]: channels the hook of c has subscribed and not removed

viewVars == <<vs, tables, channels>>

facadeVars == <<hc, dc, signedIn, lastRead, fc, viewVars>>

vars == <<convs, msgs, uniqueKey, nextId, now, st, cc, fetches, nreq, applied,
          chan, feed, mounted, msgVars, facadeVars>>

storeVars == <<convs, msgs, uniqueKey, nextId>>

\* ------------------------------------------------------------ store queries

\* .contains('participants', xs): the row's array holds every element of xs
Contains(row, xs) == xs \subseteq row.participants

\* .eq('propertyId', v): SQL equality, never true of a NULL column
EqProp(row, v) == row.propertyId # Null /\ row.propertyId = v

\* propertyId || ''  (the value the existence check filters on)
CheckProp(p) == IF p = Absent \/ p = EmptyStr THEN EmptyStr ELSE p

\* propertyId || null  (the value the insert stores)
InsertProp(p) == IF p = Absent \/ p = EmptyStr THEN Null ELSE p

\* the dedup key of a row: {unordered participants, propertyId}
KeyOf(row) == <<row.participants, row.propertyId>>

Newer(r, q) == \/ r.lastMessageAt > q.lastMessageAt
               \/ r.lastMessageAt = q.lastMessageAt /\ r.id >= q.id

RECURSIVE SortDesc(_)
\* .order('lastMessageAt', { ascending: false })
SortDesc(S) ==
    IF S = {} THEN <<>>
    ELSE LET m == CHOOSE r \in S : \A q \in S : Newer(r, q)
         IN  <<m>> \o SortDesc(S \ {m})

\* select * from conversations where participants @> {u} order by lastMessageAt desc
ListForUser(u) == SortDesc({r \in convs : Contains(r, {u})})

\* select * from conversations where participants @> {u, v} and propertyId = p
\* (no ORDER BY: any matching row may come first)
ExistingConversations(u, v, p) ==
    {r \in convs : Contains(r, {u, v}) /\ EqProp(r, CheckProp(p))}

\* clients whose channel filter participants=cs.{user.id} matches a changed row
Subscribers(row) == {c \in Clients : chan[c] = "joined" /\ UserOf(c) \in row.participants}

\* the store publishes a change of a conversations row to the matching channels
Publish(row) == [c \in Clients |-> IF c \in Subscribers(row) THEN feed[c] + 1 ELSE feed[c]]

CanPublish(row) == \A c \in Subscribers(row) : feed[c] < MaxFeed

\* ------------------------------------------------------------------- Init

IdleCall == [pc |-> "idle", receiver |-> Null, prop |-> Absent, row |-> NoRow,
             err |-> Null, ret |-> NoId]

NoMsg == [id |-> 0]

\* caller: "send" for handleSendMessage, "start" for handleCreateConversation
IdleSend == [pc |-> "idle", caller |-> "send", conv |-> 0, content |-> EmptyStr,
             files |-> 0, uploaded |-> 0, msg |-> NoMsg, wait |-> 0, err |-> Null, result |-> Null]

IdleStart == [pc |-> "idle", initialMessage |-> FALSE, conv |-> NoId, wait |-> 0,
              sendErr |-> Null, ret |-> NoId]

IdleRemove == [pc |-> "idle", conv |-> NoId, wasCurrent |-> FALSE, ok |-> FALSE,
               err |-> Null, ret |-> Null]

\* useState<File[]>([]), useState(false); asked is the text handleSendMessage was
\* called with last, outcome what its await of onSendMessage gave last
IdleView == [pc |-> "idle", isSending |-> FALSE, selectedFiles |-> 0, asked |-> Null,
             outcome |-> Null]

\* no view is sending; the tables exist
InitView ==
    /\ vs = [c \in Clients |-> IdleView]
    /\ tables = TRUE
    /\ channels = [c \in Clients |-> IF chan[c] = "none" THEN 0 ELSE 1]

\* no facade call running, every client signed in, nothing marked read yet
InitFacade ==
    /\ InitView
    /\ hc = [c \in Clients |-> IdleStart]
    /\ dc = [c \in Clients |-> IdleRemove]
    /\ signedIn = [c \in Clients |-> TRUE]
    /\ lastRead = {}
    /\ fc = [c \in Clients |-> "idle"]

Init ==
    /\ convs = {}
    /\ msgs = {}
    /\ uniqueKey \in BOOLEAN
    /\ nextId = 1
    /\ now = 1
    /\ st = [c \in Clients |-> [loading |-> FALSE, conversations |-> <<>>,
                                currentConversation |-> NoRow]]
    /\ cc = [c \in Clients |-> IdleCall]
    /\ fetches = [c \in Clients |-> {}]
    /\ nreq = [c \in Clients |-> 0]
    /\ applied = [c \in Clients |-> 0]
    /\ chan = [c \in Clients |-> "none"]
    /\ feed = [c \in Clients |-> 0]
    /\ mounted = [c \in Clients |-> FALSE]
    /\ mf = [c \in Clients |-> {}]
    /\ mreq = [c \in Clients |-> 0]
    /\ messages = [c \in Clients |-> <<>>]
    /\ reads = [c \in Clients |-> {}]
    /\ sc = [s \in SendCalls |-> IdleSend]
    /\ effDep = [c \in Clients |-> NoId]
    /\ InitFacade

\* a hook that never looks at the user
HasUserAlways(c) == TRUE

\* const { user } = useAuth(); the guards if (!user) return / if (user) {...}
HasUser(c) == signedIn[c]

\* ------------------------------------------- fetchConversations (useConversations)

Request(n, trig) == [seq |-> n, trigger |-> trig, phase |-> "sent", ok |-> TRUE, data |-> <<>>]

\* fetchConversations up to its first await: loading := true, the select is on its way
StartFetch(state, c) == [state EXCEPT ![c].loading = TRUE]

\* ensureTablesExist found no table conversations: the two rpc calls create
\* the tables (or fail, which is only logged)
EnsureTables(c, r, created) ==
    /\ r \in fetches[c]
    /\ r.phase = "sent"
    /\ ~tables
    /\ tables' = created
    /\ fetches' = [fetches EXCEPT ![c] = (@ \ {r}) \cup {[r EXCEPT !.phase = "ensured"]}]
    /\ UNCHANGED <<convs, msgs, uniqueKey, nextId, now, st, cc, nreq, applied, chan, feed,
                   mounted, msgVars, hc, dc, signedIn, lastRead, fc, vs, channels>>

\* ensureTablesExist found the table (or has run the rpc calls) and the store
\* executes the select of request r (or fails, as it does without the table)
FetchServe(c, r, ok) ==
    /\ r \in fetches[c]
    /\ r.phase = "ensured" \/ (r.phase = "sent" /\ tables)
    /\ ok => tables
    /\ fetches' = [fetches EXCEPT ![c] = (@ \ {r}) \cup
                      {[r EXCEPT !.phase = "answered", !.ok = ok,
                                 !.data = IF ok THEN ListForUser(UserOf(c)) ELSE <<>>]}]
    /\ UNCHANGED <<convs, msgs, uniqueKey, nextId, now, st, cc, nreq, applied, chan, feed, mounted, msgVars, facadeVars>>

\* a catch block that forgets the loading flag
ApplyResponseStuck(state, r) ==
    IF r.ok THEN [state EXCEPT !.conversations = r.data, !.loading = FALSE]
            ELSE [state EXCEPT !.conversations = <<>>]

\* what the response of a request makes of the hook's state
ApplyResponse(state, r) ==
    IF r.ok THEN [state EXCEPT !.conversations = r.data, !.loading = FALSE]
            ELSE [state EXCEPT !.conversations = <<>>, !.loading = FALSE]

\* the response of request r arrives and the rest of fetchConversations runs
FetchApply(c, r) ==
    /\ r \in fetches[c]
    /\ r.phase = "answered"
    /\ st' = [st EXCEPT ![c] = ApplyResponse(@, r)]
    /\ applied' = [applied EXCEPT ![c] = r.seq]
    /\ fetches' = [fetches EXCEPT ![c] = @ \ {r}]
    /\ UNCHANGED <<convs, msgs, uniqueKey, nextId, now, cc, nreq, chan, feed, mounted, msgVars, facadeVars>>

\* --------------------------------------------------- useMessaging: the effects

\* first render: with a user, useConversations' effect and initializeMessages
\* each call fetchConversations and the channel is subscribed; without a user
\* the three effects do nothing
Mount(c) ==
    /\ ~mounted[c]
    /\ mounted' = [mounted EXCEPT ![c] = TRUE]
    /\ IF HasUser(c)
       THEN /\ st' = StartFetch(st, c)
            /\ fetches' = [fetches EXCEPT ![c] = {Request(1, "mount"), Request(2, "mount")}]
            /\ nreq' = [nreq EXCEPT ![c] = 2]
            /\ chan' = [chan EXCEPT ![c] = "joined"]
            /\ channels' = [channels EXCEPT ![c] = @ + 1]
       ELSE UNCHANGED <<st, fetches, nreq, chan, channels>>
    /\ UNCHANGED <<convs, msgs, uniqueKey, nextId, now, cc, applied, feed, msgVars,
                   hc, dc, signedIn, lastRead, fc, vs, tables>>

\* the callback of .on('postgres_changes', {event: '*', table: 'conversations'})
OnChange(c) ==
    /\ chan[c] = "joined"
    /\ feed[c] > 0
    /\ nreq[c] < MaxFetch
    /\ feed' = [feed EXCEPT ![c] = @ - 1]
    /\ st' = StartFetch(st, c)
    /\ nreq' = [nreq EXCEPT ![c] = @ + 1]
    /\ fetches' = [fetches EXCEPT ![c] = @ \cup {Request(nreq[c] + 1, "notify")}]
    /\ UNCHANGED <<convs, msgs, uniqueKey, nextId, now, cc, applied, chan, mounted, msgVars, facadeVars>>

\* the realtime connection drops; changes made meanwhile are not delivered
ChannelDrop(c) ==
    /\ chan[c] = "joined"
    /\ chan' = [chan EXCEPT ![c] = "dropped"]
    /\ UNCHANGED <<convs, msgs, uniqueKey, nextId, now, st, cc, fetches, nreq, applied, feed, mounted, msgVars, facadeVars>>

\* the client library rejoins the channel; .subscribe() was given no status
\* callback, so no code of the hook runs
ChannelRejoin(c) ==
    /\ chan[c] = "dropped"
    /\ chan' = [chan EXCEPT ![c] = "joined"]
    /\ UNCHANGED <<convs, msgs, uniqueKey, nextId, now, st, cc, fetches, nreq, applied, feed, mounted, msgVars, facadeVars>>

\* the development database is reset: the tables are gone with their rows
DropTables ==
    /\ tables
    /\ tables' = FALSE
    /\ convs' = {}
    /\ msgs' = {}
    /\ UNCHANGED <<uniqueKey, nextId, now, st, cc, fetches, nreq, applied, chan, feed,
                   mounted, msgVars, hc, dc, signedIn, lastRead, fc, vs, channels>>

\* ------------------------------------------------------- createConversation

\* createConversation up to its first await; without a user it returns null
CreateStart(c, rcv, p) ==
    /\ mounted[c]
    /\ cc[c].pc = "idle"
    /\ now < MaxClock
    /\ rcv # UserOf(c)
    /\ IF HasUser(c)
       THEN /\ st' = [st EXCEPT ![c].loading = TRUE]
            /\ cc' = [cc EXCEPT ![c] = [IdleCall EXCEPT !.pc = "check", !.receiver = rcv,
                                                       !.prop = p]]
       ELSE /\ st' = st
            /\ cc' = [cc EXCEPT ![c] = [IdleCall EXCEPT !.pc = "done", !.receiver = rcv,
                                                       !.prop = p]]
    /\ UNCHANGED <<convs, msgs, uniqueKey, nextId, now, fetches, nreq, applied, chan, feed, mounted, msgVars, facadeVars>>

\* const newConversation = {...}
NewConversation(c) ==
    [id |-> 0, participants |-> {UserOf(c), cc[c].receiver},
     propertyId |-> InsertProp(cc[c].prop), lastMessageAt |-> now, unreadCount |-> 0]

\* the existence check returns: an existing row is returned to the caller,
\* otherwise (also after existingError, which is only logged) the insert is sent
CreateCheck(c, existingError) ==
    /\ cc[c].pc = "check"
    /\ LET found == IF existingError THEN {}
                    ELSE ExistingConversations(UserOf(c), cc[c].receiver, cc[c].prop)
       IN  IF found # {}
           THEN \E conversation \in found :
                  /\ st' = [st EXCEPT ![c].currentConversation = conversation,
                                      ![c].loading = FALSE]
                  /\ cc' = [cc EXCEPT ![c].pc = "done", ![c].ret = conversation.id]
                  /\ now' = now
           ELSE /\ cc' = [cc EXCEPT ![c].pc = "insert", ![c].row = NewConversation(c)]
                /\ now' = now + 1
                /\ st' = st
    /\ UNCHANGED <<convs, msgs, uniqueKey, nextId, fetches, nreq, applied, chan, feed, mounted, msgVars, facadeVars>>

\* the store's answer to the insert: a duplicate key is rejected when the
\* schema has the constraint, the backend may be unavailable, else the row
\* is stored under a fresh id
InsertOutcome(row, unavailable) ==
    IF uniqueKey /\ \E r \in convs : KeyOf(r) = KeyOf(row) THEN "duplicate"
    ELSE IF unavailable THEN "unavailable"
    ELSE "ok"

\* the store executes .insert([newConversation]).select()
CreateInsert(c, unavailable) ==
    /\ cc[c].pc = "insert"
    /\ LET outcome == InsertOutcome(cc[c].row, unavailable)
           stored  == [cc[c].row EXCEPT !.id = nextId]
       IN  IF outcome = "ok"
           THEN /\ CanPublish(stored)
                /\ convs' = convs \cup {stored}
                /\ nextId' = nextId + 1
                /\ feed' = Publish(stored)
                /\ cc' = [cc EXCEPT ![c].pc = "inserted", ![c].row = stored]
           ELSE /\ cc' = [cc EXCEPT ![c].pc = "inserted", ![c].row = NoRow, ![c].err = outcome]
                /\ UNCHANGED <<convs, nextId, feed>>
    /\ UNCHANGED <<msgs, uniqueKey, now, st, fetches, nreq, applied, chan, mounted, msgVars, facadeVars>>

\* what createConversation returns once the insert has answered
CreateResult(call) == IF call.err # Null THEN NoId ELSE call.row.id

\* the insert's response arrives: throw into the catch block on error,
\* else prepend the new conversation and make it current
CreateInsertResp(c) ==
    /\ cc[c].pc = "inserted"
    /\ st' = [st EXCEPT ![c] =
                 IF cc[c].err # Null
                 THEN [@ EXCEPT !.loading = FALSE]
                 ELSE [@ EXCEPT !.conversations = <<cc[c].row>> \o @,
                                !.currentConversation = cc[c].row,
                                !.loading = FALSE]]
    /\ cc' = [cc EXCEPT ![c].pc = "done", ![c].ret = CreateResult(cc[c])]
    /\ UNCHANGED <<convs, msgs, uniqueKey, nextId, now, fetches, nreq, applied, chan, feed, mounted, msgVars, facadeVars>>

\* the caller has the result; the hook is ready for the next call
CreateReturn(c) ==
    /\ cc[c].pc = "done"
    /\ cc' = [cc EXCEPT ![c] = IdleCall]
    /\ UNCHANGED <<convs, msgs, uniqueKey, nextId, now, st, fetches, nreq, applied, chan, feed, mounted, msgVars, facadeVars>>

\* ------------------------------------ useMessages (fetchMessages, markMessagesAsRead)

Older(m, n) == \/ m.createdAt < n.createdAt
               \/ m.createdAt = n.createdAt /\ m.id <= n.id

RECURSIVE SortAsc(_)
SortAsc(S) ==
    IF S = {} THEN <<>>
    ELSE LET m == CHOOSE x \in S : \A y \in S : Older(x, y)
         IN  <<m>> \o SortAsc(S \ {m})

\* listForConversation: ascending by createdAt, ties by id
ListForConversation(k) == SortAsc({m \in msgs : m.conversationId = k})

CurId(state) == state.currentConversation.id

MsgRequest(n, k) == [seq |-> n, conv |-> k, phase |-> "sent", data |-> <<>>]

\* fetchMessages(conversationId) up to its await
AddMsgFetch(c, k) == [mf EXCEPT ![c] = @ \cup {MsgRequest(mreq[c] + 1, k)}]

\* the store executes the select of message request r (or fails)
MsgFetchServe(c, r, ok) ==
    /\ r \in mf[c]
    /\ r.phase = "sent"
    /\ mf' = [mf EXCEPT ![c] = (@ \ {r}) \cup
                 {[r EXCEPT !.phase = IF ok THEN "answered" ELSE "error",
                            !.data = IF ok THEN ListForConversation(r.conv) ELSE <<>>]}]
    /\ UNCHANGED <<convs, msgs, uniqueKey, nextId, now, st, cc, fetches, nreq, applied,
                   chan, feed, mounted, mreq, messages, reads, sc, effDep, facadeVars>>

\* the response arrives: a result for a conversation that is not the current
\* selection is discarded, an error rejects the promise
MsgFetchApply(c, r) ==
    /\ r \in mf[c]
    /\ r.phase \in {"answered", "error"}
    /\ messages' = [messages EXCEPT ![c] =
                       IF r.phase = "answered" /\ r.conv = CurId(st[c]) THEN r.data ELSE @]
    /\ mf' = [mf EXCEPT ![c] = (@ \ {r}) \cup
                 {[r EXCEPT !.phase = IF r.phase = "answered" THEN "done" ELSE "failed",
                            !.data = <<>>]}]
    /\ UNCHANGED <<convs, msgs, uniqueKey, nextId, now, st, cc, fetches, nreq, applied,
                   chan, feed, mounted, mreq, reads, sc, effDep, facadeVars>>

\* messages of conversation k authored by others and created after time t
UnreadAfter(k, u, t) ==
    Cardinality({m \in msgs : m.conversationId = k /\ m.senderId # u /\ m.createdAt > t})

\* the last-read timestamp of user u in conversation k (0: never read)
LastReadAt(k, u) ==
    LET S == {x.at : x \in {y \in lastRead : y.conv = k /\ y.user = u}}
    IN  IF S = {} THEN 0 ELSE CHOOSE t \in S : \A v \in S : t >= v

\* messages of conversation k authored by others with t0 < createdAt <= t1
Cleared(k, u, t0, t1) ==
    Cardinality({m \in msgs : /\ m.conversationId = k /\ m.senderId # u
                              /\ t0 < m.createdAt /\ m.createdAt <= t1})

\* messages by others stamped up to t that are appended but not yet counted
PendingTouch(k, u, t) ==
    Cardinality({s \in SendCalls : /\ sc[s].pc = "touch" /\ sc[s].conv = k
                                   /\ sc[s].msg.senderId # u
                                   /\ sc[s].msg.createdAt <= t})

\* a reset that overwrites the counter whatever has been counted since T
ReadResetUnconditional(count, cleared) == 0

\* mark read as of T: the reset takes only the messages up to T off the counter
ReadReset(count, cleared) == IF count > cleared THEN count - cleared ELSE 0

\* the store executes markRead(conversationId, userId) as of the call's time
\* (never earlier than the user's last-read timestamp); a no-op at zero
MarkReadServe(c, m, ok) ==
    /\ m \in reads[c]
    /\ reads' = [reads EXCEPT ![c] = @ \ {m}]
    /\ LET rows == {r \in convs : r.id = m.conv /\ r.unreadCount > 0}
           t0   == LastReadAt(m.conv, UserOf(c))
           t1   == IF m.at > t0 THEN m.at ELSE t0
       IN  IF ok /\ rows # {}
           THEN \E row \in rows :
                  LET upd == [row EXCEPT !.unreadCount =
                                 ReadReset(@, Cleared(m.conv, UserOf(c), t0, t1))]
                  IN  /\ CanPublish(upd)
                      /\ convs' = (convs \ {row}) \cup {upd}
                      /\ feed' = Publish(upd)
                      /\ lastRead' = lastRead \cup
                             {[conv |-> m.conv, user |-> UserOf(c), at |-> t1,
                               late |-> PendingTouch(m.conv, UserOf(c), t1),
                               ahead |-> UnreadAfter(m.conv, UserOf(c), t1)]}
           ELSE UNCHANGED <<convs, feed, lastRead, viewVars>>
    /\ UNCHANGED <<msgs, uniqueKey, nextId, now, st, cc, fetches, nreq, applied,
                   chan, mounted, mf, mreq, messages, sc, effDep, hc, dc, signedIn, fc, viewVars>>

\* --------------------------------------------- useMessaging: openConversation

\* a handler that never marks messages as read
ReadsAfterSelectNone(c, conversation) == reads[c]

\* if (conversation.unreadCount > 0) markMessagesAsRead(conversation.id)
ReadsAfterSelect(c, conversation) ==
    IF conversation.unreadCount > 0
    THEN reads[c] \cup {[conv |-> conversation.id, seq |-> mreq[c] + 1, at |-> now]}
    ELSE reads[c]

\* handleSelectConversation(conversation), conversation taken from the list
Select(c, i) ==
    /\ mounted[c]
    /\ i \in 1..Len(st[c].conversations)
    /\ mreq[c] < MaxMsgFetch
    /\ LET conversation == st[c].conversations[i]
       IN  /\ st' = [st EXCEPT ![c].currentConversation = conversation]
           /\ mf' = AddMsgFetch(c, conversation.id)
           /\ mreq' = [mreq EXCEPT ![c] = @ + 1]
           /\ reads' = [reads EXCEPT ![c] = ReadsAfterSelect(c, conversation)]
    /\ UNCHANGED <<convs, msgs, uniqueKey, nextId, now, cc, fetches, nreq, applied,
                   chan, feed, mounted, messages, sc, effDep, facadeVars>>

\* useEffect(..., [currentConversation?.id]): fetch the messages of a new selection
CurrentChangedEffect(c) ==
    /\ mounted[c]
    /\ CurId(st[c]) # effDep[c]
    /\ effDep' = [effDep EXCEPT ![c] = CurId(st[c])]
    /\ IF CurId(st[c]) # NoId
       THEN /\ mreq[c] < MaxMsgFetch
            /\ mf' = AddMsgFetch(c, CurId(st[c]))
            /\ mreq' = [mreq EXCEPT ![c] = @ + 1]
       ELSE UNCHANGED <<mf, mreq>>
    /\ UNCHANGED <<convs, msgs, uniqueKey, nextId, now, st, cc, fetches, nreq, applied,
                   chan, feed, mounted, messages, reads, sc, facadeVars>>

\* -------------------------------------------------- useMessages.sendMessage

\* sendMessage starts with the uploads when there are files
SendFirstStep(nfiles) == IF nfiles > 0 THEN "upload" ELSE "append"

\* one attachment goes through the blob service; a failure aborts the send
Upload(c, ok) ==
    /\ sc[c].pc = "upload"
    /\ sc' = [sc EXCEPT ![c] =
                 IF ~ok THEN [@ EXCEPT !.pc = "failed", !.err = "upload"]
                 ELSE [@ EXCEPT !.uploaded = @ + 1,
                                !.pc = IF sc[c].uploaded + 1 = sc[c].files
                                       THEN "append" ELSE "upload"]]
    /\ UNCHANGED <<convs, msgs, uniqueKey, nextId, now, st, cc, fetches, nreq, applied,
                   chan, feed, mounted, mf, mreq, messages, reads, effDep, facadeVars>>

\* every conversation passes the participant check
IsParticipantAlways(u, k) == \E r \in convs : r.id = k

\* u is a participant of the stored conversation k
IsParticipant(u, k) == \E r \in convs : r.id = k /\ u \in r.participants

\* a message has content or attachments
IsValidMessage(content, nurls) == ~(content = EmptyStr /\ nurls = 0)

\* the error of a rejected append
AppendError(u, k, content, nurls) ==
    IF ~IsValidMessage(content, nurls) THEN "InvalidMessage"
    ELSE IF k \notin {r.id : r \in convs} THEN "NotFound"
    ELSE IF ~IsParticipant(u, k) THEN "NotAuthorized" ELSE "append"

\* append(conversationId, senderId, content, attachmentUrls): the message is
\* stamped with a time later than every time read from the clock before
AppendMessage(c, ok) ==
    /\ sc[c].pc = "append"
    /\ LET authorized == IsParticipant(UserOf(HookOf(c)), sc[c].conv)
           message == [id |-> Cardinality(msgs) + 1, conversationId |-> sc[c].conv,
                       senderId |-> UserOf(HookOf(c)), createdAt |-> now + 1,
                       content |-> sc[c].content, attachments |-> sc[c].uploaded]
       IN  IF ok /\ authorized /\ IsValidMessage(sc[c].content, sc[c].uploaded)
           THEN /\ msgs' = msgs \cup {message}
                /\ now' = now + 1
                /\ sc' = [sc EXCEPT ![c].pc = "touch", ![c].msg = message]
           ELSE /\ sc' = [sc EXCEPT ![c].pc = "failed",
                                    ![c].err = AppendError(UserOf(HookOf(c)), sc[c].conv,
                                                           sc[c].content, sc[c].uploaded)]
                /\ UNCHANGED <<msgs, now>>
    /\ UNCHANGED <<convs, uniqueKey, nextId, st, cc, fetches, nreq, applied,
                   chan, feed, mounted, mf, mreq, messages, reads, effDep, facadeVars>>

\* touchOnNewMessage(conversationId, newLastMessageAt, recipientId)
Touch(c, ok) ==
    /\ sc[c].pc = "touch"
    /\ LET rows == {r \in convs : r.id = sc[c].conv}
       IN  IF ok /\ rows # {}
           THEN \E row \in rows :
                  LET upd == [row EXCEPT !.lastMessageAt = sc[c].msg.createdAt,
                                         !.unreadCount = @ + 1]
                  IN  /\ CanPublish(upd)
                      /\ convs' = (convs \ {row}) \cup {upd}
                      /\ feed' = Publish(upd)
                      /\ sc' = [sc EXCEPT ![c].pc = "sent"]
           ELSE /\ sc' = [sc EXCEPT ![c].pc = "failed", ![c].err = "touch"]
                /\ UNCHANGED <<convs, feed>>
    /\ UNCHANGED <<msgs, uniqueKey, nextId, now, st, cc, fetches, nreq, applied,
                   chan, mounted, mf, mreq, messages, reads, effDep, facadeVars>>

\* ----------------------------------------------- useMessaging: handleSendMessage

KnownIds(c) == {st[c].conversations[i].id : i \in 1..Len(st[c].conversations)}

\* handleSendMessage(conversationId, content, attachments) calls sendMessageBase
SendCallWith(c, k, content, nfiles) ==
    /\ mounted[HookOf(c)]
    /\ sc[c].pc = "idle"
    /\ Cardinality(msgs) < MaxMsgs
    /\ sc' = [sc EXCEPT ![c] = [IdleSend EXCEPT !.pc = SendFirstStep(nfiles), !.conv = k,
                                               !.content = content, !.files = nfiles]]
    /\ UNCHANGED <<convs, msgs, uniqueKey, nextId, now, st, cc, fetches, nreq, applied,
                   chan, feed, mounted, mf, mreq, messages, reads, effDep, facadeVars>>

\* a call with some text
SendCall(c, k, nfiles) == SendCallWith(c, k, Text, nfiles)

\* the call as the conversation view makes it: for a conversation of the list
SendStart(c, k, nfiles) ==
    /\ k \in KnownIds(HookOf(c))
    /\ SendCall(c, k, nfiles)

\* sendMessageBase resolved: await fetchMessagesBase(conversationId)
SendRefreshMessages(c) ==
    /\ sc[c].pc = "sent"
    /\ sc[c].caller = "send"
    /\ mreq[HookOf(c)] < MaxMsgFetch
    /\ mf' = AddMsgFetch(HookOf(c), sc[c].conv)
    /\ mreq' = [mreq EXCEPT ![HookOf(c)] = @ + 1]
    /\ sc' = [sc EXCEPT ![c].pc = "refreshMsgs", ![c].wait = mreq[HookOf(c)] + 1]
    /\ UNCHANGED <<convs, msgs, uniqueKey, nextId, now, st, cc, fetches, nreq, applied,
                   chan, feed, mounted, messages, reads, effDep, facadeVars>>

\* fetchConversations() started without awaiting fetchMessagesBase
SendRefreshConversationsNoAwait(c) ==
    /\ sc[c].pc = "refreshMsgs"
    /\ nreq[HookOf(c)] < MaxFetch
    /\ st' = StartFetch(st, HookOf(c))
    /\ nreq' = [nreq EXCEPT ![HookOf(c)] = @ + 1]
    /\ fetches' = [fetches EXCEPT ![HookOf(c)] = @ \cup {Request(nreq[HookOf(c)] + 1, "send")}]
    /\ sc' = [sc EXCEPT ![c].pc = "refreshConvs", ![c].wait = nreq[HookOf(c)] + 1]
    /\ UNCHANGED <<convs, msgs, uniqueKey, nextId, now, cc, applied,
                   chan, feed, mounted, mf, mreq, messages, reads, effDep, facadeVars>>

\* fetchMessagesBase resolved: await fetchConversations()
SendRefreshConversations(c) ==
    /\ sc[c].pc = "refreshMsgs"
    /\ \E r \in mf[HookOf(c)] : r.seq = sc[c].wait /\ r.phase = "done"
    /\ nreq[HookOf(c)] < MaxFetch
    /\ st' = StartFetch(st, HookOf(c))
    /\ nreq' = [nreq EXCEPT ![HookOf(c)] = @ + 1]
    /\ fetches' = [fetches EXCEPT ![HookOf(c)] = @ \cup {Request(nreq[HookOf(c)] + 1, "send")}]
    /\ sc' = [sc EXCEPT ![c].pc = "refreshConvs", ![c].wait = nreq[HookOf(c)] + 1]
    /\ UNCHANGED <<convs, msgs, uniqueKey, nextId, now, cc, applied,
                   chan, feed, mounted, mf, mreq, messages, reads, effDep, facadeVars>>

\* fetchMessagesBase rejected: into the catch block
SendRefreshFailed(c) ==
    /\ sc[c].pc = "refreshMsgs"
    /\ \E r \in mf[HookOf(c)] : r.seq = sc[c].wait /\ r.phase = "failed"
    /\ sc' = [sc EXCEPT ![c].pc = "failed", ![c].err = "refresh"]
    /\ UNCHANGED <<convs, msgs, uniqueKey, nextId, now, st, cc, fetches, nreq, applied,
                   chan, feed, mounted, mf, mreq, messages, reads, effDep, facadeVars>>

\* a catch block that swallows the error instead of rethrowing it
SendOutcomeSwallowed(call) == "true"

\* the outcome the caller of handleSendMessage sees: true, or the error rethrown
SendOutcome(call) == IF call.err # Null THEN "threw" ELSE "true"

\* fetchConversations resolved (it never rejects): return true
SendComplete(c) ==
    /\ sc[c].pc = "refreshConvs"
    /\ ~ \E r \in fetches[HookOf(c)] : r.seq = sc[c].wait
    /\ sc' = [sc EXCEPT ![c].pc = "done", ![c].result = SendOutcome(sc[c])]
    /\ UNCHANGED <<convs, msgs, uniqueKey, nextId, now, st, cc, fetches, nreq, applied,
                   chan, feed, mounted, mf, mreq, messages, reads, effDep, facadeVars>>

\* catch (error) { toast(...); throw error; }
SendCatch(c) ==
    /\ sc[c].pc = "failed"
    /\ sc[c].caller = "send"
    /\ sc' = [sc EXCEPT ![c].pc = "done", ![c].result = SendOutcome(sc[c])]
    /\ UNCHANGED <<convs, msgs, uniqueKey, nextId, now, st, cc, fetches, nreq, applied,
                   chan, feed, mounted, mf, mreq, messages, reads, effDep, facadeVars>>

\* the caller has the outcome; the next send may start
SendReturn(c) ==
    /\ sc[c].pc = "done"
    /\ sc' = [sc EXCEPT ![c] = IdleSend]
    /\ UNCHANGED <<convs, msgs, uniqueKey, nextId, now, st, cc, fetches, nreq, applied,
                   chan, feed, mounted, mf, mreq, messages, reads, effDep, facadeVars>>

\* ------------------------------------------------------------ ConversationView

\* content.trim()
Trim(content) == IF content = Blank THEN EmptyStr ELSE content

\* a view that sends whatever it is given
IsBlankSendNever(content, nfiles) == FALSE

\* if (!content.trim() && selectedFiles.length === 0) return;
IsBlankSend(content, nfiles) == Trim(content) = EmptyStr /\ nfiles = 0

\* handleFileChange / removeFile: the user selects n files
FileChange(c, n) ==
    /\ mounted[c]
    /\ vs[c].selectedFiles # n
    /\ vs' = [vs EXCEPT ![c].selectedFiles = n]
    /\ UNCHANGED <<convs, msgs, uniqueKey, nextId, now, st, cc, fetches, nreq, applied,
                   chan, feed, mounted, msgVars, hc, dc, signedIn, lastRead, fc, tables, channels>>

\* handleSendMessage(content) of the view showing conversation k, up to
\* await onSendMessage(content, selectedFiles), which is the facade's
\* handleSendMessage for that conversation
ViewSend(c, k, content) ==
    /\ mounted[c]
    /\ vs[c].pc = "idle"
    /\ k \in KnownIds(c)
    /\ IF IsBlankSend(content, vs[c].selectedFiles)
       THEN /\ vs[c].asked # content
            /\ vs' = [vs EXCEPT ![c].asked = content]
            /\ sc' = sc
       ELSE /\ sc[c].pc = "idle"
            /\ Cardinality(msgs) < MaxMsgs
            /\ vs' = [vs EXCEPT ![c].pc = "awaiting", ![c].isSending = TRUE,
                                ![c].asked = content, ![c].outcome = Null]
            /\ sc' = [sc EXCEPT ![c] =
                         [IdleSend EXCEPT !.pc = SendFirstStep(vs[c].selectedFiles),
                                          !.conv = k, !.content = content,
                                          !.files = vs[c].selectedFiles]]
    /\ UNCHANGED <<convs, msgs, uniqueKey, nextId, now, st, cc, fetches, nreq, applied,
                   chan, feed, mounted, mf, mreq, messages, reads, effDep,
                   hc, dc, signedIn, lastRead, fc, tables, channels>>

\* a view that empties the selection whatever came of the send
AfterSendCleared(view, result) ==
    [view EXCEPT !.pc = "idle", !.isSending = FALSE, !.outcome = result,
                 !.selectedFiles = 0]

\* onSendMessage resolved: setSelectedFiles([]); rejected: catch logs; then
\* finally setIsSending(false)
AfterSend(view, result) ==
    [view EXCEPT !.pc = "idle", !.isSending = FALSE, !.outcome = result,
                 !.selectedFiles = IF result = "true" THEN 0 ELSE @]

\* the promise of onSendMessage settles and the rest of handleSendMessage runs
ViewSendDone(c) ==
    /\ vs[c].pc = "awaiting"
    /\ sc[c].pc = "done"
    /\ vs' = [vs EXCEPT ![c] = AfterSend(@, sc[c].result)]
    /\ sc' = [sc EXCEPT ![c] = IdleSend]
    /\ UNCHANGED <<convs, msgs, uniqueKey, nextId, now, st, cc, fetches, nreq, applied,
                   chan, feed, mounted, mf, mreq, messages, reads, effDep,
                   hc, dc, signedIn, lastRead, fc, tables, channels>>

\* ---------------------------------------- useMessaging: handleCreateConversation

\* if (conversation && initialMessage): a string other than "" counts as given
Truthy(text) == text # EmptyStr /\ text # Absent

\* a handler that sends the initial message whatever createConversation gave
SendsInitialAlways(ret, initialMessage) == Truthy(initialMessage)

\* if (!conversation) return null; ... if (conversation && initialMessage)
SendsInitial(ret, initialMessage) == ret # NoId /\ Truthy(initialMessage)

\* createConversation returned to handleCreateConversation: null ends the call
\* with null; with an initialMessage the call goes on to sendMessageBase
StartWith(c, initialMessage) ==
    /\ cc[c].pc = "done"
    /\ hc[c].pc = "idle"
    /\ cc' = [cc EXCEPT ![c] = IdleCall]
    /\ IF SendsInitial(cc[c].ret, initialMessage)
       THEN /\ sc[c].pc = "idle"
            /\ Cardinality(msgs) < MaxMsgs
            /\ hc' = [hc EXCEPT ![c] = [IdleStart EXCEPT !.pc = "sending", !.conv = cc[c].ret,
                                                        !.initialMessage = TRUE]]
            /\ sc' = [sc EXCEPT ![c] = [IdleSend EXCEPT !.pc = SendFirstStep(0),
                                                       !.caller = "start",
                                                       !.content = initialMessage,
                                                       !.conv = cc[c].ret]]
       ELSE /\ hc' = [hc EXCEPT ![c] = [IdleStart EXCEPT !.pc = "done", !.conv = cc[c].ret,
                                                        !.initialMessage = Truthy(initialMessage),
                                                        !.ret = cc[c].ret]]
            /\ sc' = sc
    /\ UNCHANGED <<convs, msgs, uniqueKey, nextId, now, st, fetches, nreq, applied,
                   chan, feed, mounted, mf, mreq, messages, reads, effDep,
                   dc, signedIn, lastRead, fc, viewVars>>

\* the call with some initial text, or with none
StartAfterCreate(c, initialMessage) == StartWith(c, IF initialMessage THEN Text ELSE Absent)

\* sendMessageBase resolved: await fetchConversations()
StartRefresh(c) ==
    /\ hc[c].pc = "sending"
    /\ sc[c].pc = "sent"
    /\ sc[c].caller = "start"
    /\ nreq[c] < MaxFetch
    /\ st' = StartFetch(st, c)
    /\ nreq' = [nreq EXCEPT ![c] = @ + 1]
    /\ fetches' = [fetches EXCEPT ![c] = @ \cup {Request(nreq[c] + 1, "start")}]
    /\ hc' = [hc EXCEPT ![c].pc = "refreshing", ![c].wait = nreq[c] + 1]
    /\ sc' = [sc EXCEPT ![c] = IdleSend]
    /\ UNCHANGED <<convs, msgs, uniqueKey, nextId, now, cc, applied,
                   chan, feed, mounted, mf, mreq, messages, reads, effDep,
                   dc, signedIn, lastRead, fc, viewVars>>

\* a handler that gives up the conversation when its first message fails
StartResultUndone(call) == IF call.sendErr # Null THEN NoId ELSE call.conv

\* return conversation, reached after the inner try/catch whatever happened in it
StartResult(call) == call.conv

\* sendMessageBase rejected: catch (messageError) logs and continues
StartMessageFailed(c) ==
    /\ hc[c].pc = "sending"
    /\ sc[c].pc = "failed"
    /\ sc[c].caller = "start"
    /\ LET call == [hc[c] EXCEPT !.sendErr = sc[c].err]
       IN  hc' = [hc EXCEPT ![c] = [call EXCEPT !.pc = "done", !.ret = StartResult(call)]]
    /\ sc' = [sc EXCEPT ![c] = IdleSend]
    /\ UNCHANGED <<convs, msgs, uniqueKey, nextId, now, st, cc, fetches, nreq, applied,
                   chan, feed, mounted, mf, mreq, messages, reads, effDep,
                   dc, signedIn, lastRead, fc, viewVars>>

\* fetchConversations resolved (it never rejects): return conversation
StartComplete(c) ==
    /\ hc[c].pc = "refreshing"
    /\ ~ \E r \in fetches[c] : r.seq = hc[c].wait
    /\ hc' = [hc EXCEPT ![c].pc = "done", ![c].ret = StartResult(hc[c])]
    /\ UNCHANGED <<convs, msgs, uniqueKey, nextId, now, st, cc, fetches, nreq, applied,
                   chan, feed, mounted, msgVars, dc, signedIn, lastRead, fc, viewVars>>

\* the caller has the result
StartReturn(c) ==
    /\ hc[c].pc = "done"
    /\ hc' = [hc EXCEPT ![c] = IdleStart]
    /\ UNCHANGED <<convs, msgs, uniqueKey, nextId, now, st, cc, fetches, nreq, applied,
                   chan, feed, mounted, msgVars, dc, signedIn, lastRead, fc, viewVars>>

\* ---------------------------------------- useMessaging: handleDeleteConversation

\* a handler that leaves the selection alone
ClearIfCurrentKept(state, k) == state

\* if (currentConversation?.id === conversationId) setCurrentConversation(null)
ClearIfCurrent(state, k) ==
    IF CurId(state) = k THEN [state EXCEPT !.currentConversation = NoRow] ELSE state

\* handleDeleteConversation(conversationId) up to await deleteConversation
RemoveCall(c, k) ==
    /\ mounted[c]
    /\ dc[c].pc = "idle"
    /\ st' = [st EXCEPT ![c] = ClearIfCurrent(@, k)]
    /\ dc' = [dc EXCEPT ![c] = [IdleRemove EXCEPT !.pc = "deleting", !.conv = k,
                                                 !.wasCurrent = (CurId(st[c]) = k)]]
    /\ UNCHANGED <<convs, msgs, uniqueKey, nextId, now, cc, fetches, nreq, applied,
                   chan, feed, mounted, msgVars, hc, signedIn, lastRead, fc, viewVars>>

\* the call as the conversation list makes it: for a conversation it shows
RemoveStart(c, k) ==
    /\ k \in KnownIds(c)
    /\ RemoveCall(c, k)

\* the delete leaves the messages of the conversation behind
CascadeNone(k) == msgs

\* the messages left when conversation k goes: all but its own
Cascade(k) == {m \in msgs : m.conversationId # k}

\* the error of a rejected delete
DeleteError(u, k) ==
    IF k \notin {r.id : r \in convs} THEN "NotFound"
    ELSE IF ~IsParticipant(u, k) THEN "NotAuthorized" ELSE "unavailable"

\* delete(conversationId, requesterId): NotFound, NotAuthorized, or the row
\* goes with all its messages
DeleteServe(c, ok) ==
    /\ dc[c].pc = "deleting"
    /\ LET rows == {r \in convs : r.id = dc[c].conv /\ IsParticipant(UserOf(c), r.id)}
       IN  IF ok /\ rows # {}
           THEN \E row \in rows :
                  /\ CanPublish(row)
                  /\ feed' = Publish(row)
                  /\ convs' = convs \ {row}
                  /\ msgs' = Cascade(row.id)
                  /\ dc' = [dc EXCEPT ![c].pc = "answered", ![c].ok = TRUE]
           ELSE /\ dc' = [dc EXCEPT ![c].pc = "answered", ![c].ok = FALSE,
                                    ![c].err = DeleteError(UserOf(c), dc[c].conv)]
                /\ UNCHANGED <<convs, msgs, feed>>
    /\ UNCHANGED <<uniqueKey, nextId, now, st, cc, fetches, nreq, applied,
                   chan, mounted, msgVars, hc, signedIn, lastRead, fc, viewVars>>

\* deleteConversation resolved: return true; rejected: toast, return false
RemoveReturn(c) ==
    /\ dc[c].pc = "answered"
    /\ dc' = [dc EXCEPT ![c].pc = "done", ![c].ret = IF dc[c].ok THEN "true" ELSE "false"]
    /\ UNCHANGED <<convs, msgs, uniqueKey, nextId, now, st, cc, fetches, nreq, applied,
                   chan, feed, mounted, msgVars, hc, signedIn, lastRead, fc, viewVars>>

\* the caller has the result
RemoveReset(c) ==
    /\ dc[c].pc = "done"
    /\ dc' = [dc EXCEPT ![c] = IdleRemove]
    /\ UNCHANGED <<convs, msgs, uniqueKey, nextId, now, st, cc, fetches, nreq, applied,
                   chan, feed, mounted, msgVars, hc, signedIn, lastRead, fc, viewVars>>

\* ------------------------------------------------- the user signs in and out

\* the page calls the exported fetchConversations (a refresh)
FetchCall(c) ==
    /\ mounted[c]
    /\ fc[c] = "idle"
    /\ IF HasUser(c)
       THEN /\ nreq[c] < MaxFetch
            /\ st' = StartFetch(st, c)
            /\ nreq' = [nreq EXCEPT ![c] = @ + 1]
            /\ fetches' = [fetches EXCEPT ![c] = @ \cup {Request(nreq[c] + 1, "call")}]
            /\ fc' = [fc EXCEPT ![c] = "requested"]
       ELSE /\ fc' = [fc EXCEPT ![c] = "noUser"]
            /\ UNCHANGED <<st, nreq, fetches>>
    /\ UNCHANGED <<convs, msgs, uniqueKey, nextId, now, cc, applied, chan, feed, mounted,
                   msgVars, hc, dc, signedIn, lastRead, viewVars>>

\* the page has seen the call return
FetchCallReturn(c) ==
    /\ fc[c] # "idle"
    /\ fc[c] = "requested" => ~ \E r \in fetches[c] : r.seq = nreq[c]
    /\ fc' = [fc EXCEPT ![c] = "idle"]
    /\ UNCHANGED <<convs, msgs, uniqueKey, nextId, now, st, cc, fetches, nreq, applied,
                   chan, feed, mounted, msgVars, hc, dc, signedIn, lastRead, viewVars>>

\* useAuth() starts to return a user: the effects with [user] in their
\* dependencies run as at the first render with a user
SignIn(c) ==
    /\ ~signedIn[c]
    /\ signedIn' = [signedIn EXCEPT ![c] = TRUE]
    /\ IF mounted[c]
       THEN /\ nreq[c] + 2 <= MaxFetch
            /\ st' = StartFetch(st, c)
            /\ fetches' = [fetches EXCEPT ![c] = @ \cup {Request(nreq[c] + 1, "mount"),
                                                         Request(nreq[c] + 2, "mount")}]
            /\ nreq' = [nreq EXCEPT ![c] = @ + 2]
            /\ chan' = [chan EXCEPT ![c] = "joined"]
            /\ channels' = [channels EXCEPT ![c] = @ + 1]
       ELSE UNCHANGED <<st, fetches, nreq, chan, channels>>
    /\ UNCHANGED <<convs, msgs, uniqueKey, nextId, now, cc, applied, feed, mounted,
                   msgVars, hc, dc, lastRead, fc, vs, tables>>

\* a cleanup that leaves the channel subscribed
RemoveChannelLeft(n) == n

\* return () => { supabase.removeChannel(conversationsChannel); }
RemoveChannel(n) == IF n > 0 THEN n - 1 ELSE 0

\* the state of the client's subscription once the cleanup has run
AfterCleanup(c) == IF RemoveChannel(channels[c]) = 0 THEN "none" ELSE chan[c]

\* useAuth() stops returning a user: the subscription effect's cleanup removes
\* the channel
SignOut(c) ==
    /\ signedIn[c]
    /\ signedIn' = [signedIn EXCEPT ![c] = FALSE]
    /\ chan' = [chan EXCEPT ![c] = AfterCleanup(c)]
    /\ channels' = [channels EXCEPT ![c] = RemoveChannel(@)]
    /\ UNCHANGED <<convs, msgs, uniqueKey, nextId, now, st, cc, fetches, nreq, applied,
                   feed, mounted, msgVars, hc, dc, lastRead, fc, vs, tables>>

\* useAuth() returns another user object: cleanup of the old subscription,
\* then the effects run again as in SignIn
UserChange(c) ==
    /\ signedIn[c]
    /\ mounted[c]
    /\ nreq[c] + 2 <= MaxFetch
    /\ st' = StartFetch(st, c)
    /\ fetches' = [fetches EXCEPT ![c] = @ \cup {Request(nreq[c] + 1, "mount"),
                                                 Request(nreq[c] + 2, "mount")}]
    /\ nreq' = [nreq EXCEPT ![c] = @ + 2]
    /\ chan' = [chan EXCEPT ![c] = "joined"]
    /\ channels' = [channels EXCEPT ![c] = RemoveChannel(@) + 1]
    /\ UNCHANGED <<convs, msgs, uniqueKey, nextId, now, cc, applied, feed, mounted,
                   msgVars, hc, dc, signedIn, lastRead, fc, vs, tables>>

\* the component using the hook unmounts while none of its calls is running:
\* the cleanup removes the channel, and responses still on their way find no
\* state to set
Unmount(c) ==
    /\ mounted[c]
    /\ cc[c].pc = "idle" /\ hc[c].pc = "idle" /\ dc[c].pc = "idle" /\ fc[c] = "idle"
    /\ sc[c].pc = "idle" /\ vs[c].pc = "idle"
    /\ mounted' = [mounted EXCEPT ![c] = FALSE]
    /\ chan' = [chan EXCEPT ![c] = AfterCleanup(c)]
    /\ channels' = [channels EXCEPT ![c] = RemoveChannel(@)]
    /\ fetches' = [fetches EXCEPT ![c] = {}]
    /\ applied' = [applied EXCEPT ![c] = 0]
    /\ st' = [st EXCEPT ![c] = [loading |-> FALSE, conversations |-> <<>>,
                                currentConversation |-> NoRow]]
    /\ UNCHANGED <<convs, msgs, uniqueKey, nextId, now, cc, nreq, feed,
                   msgVars, hc, dc, signedIn, lastRead, fc, vs, tables>>

\* ----------------------------------------------------------- specifications

\* createConversation called by both clients, calls overlapping freely
Next ==
    \/ \E c \in Clients : Mount(c)
    \/ \E c \in Clients, rcv \in Users, p \in Props : CreateStart(c, rcv, p)
    \/ \E c \in Clients, e \in BOOLEAN : CreateCheck(c, e)
    \/ \E c \in Clients, u \in BOOLEAN : CreateInsert(c, u)
    \/ \E c \in Clients : CreateInsertResp(c)
    \/ \E c \in Clients : CreateReturn(c)

Spec == Init /\ [][Next]_vars

\* a call starts only when no other call is in progress
NoCallInProgress == \A d \in Clients : cc[d].pc = "idle"

SeqNext ==
    \/ \E c \in Clients : Mount(c)
    \/ \E c \in Clients, rcv \in Users, p \in Props :
          NoCallInProgress /\ CreateStart(c, rcv, p)
    \/ \E c \in Clients, e \in BOOLEAN : CreateCheck(c, e)
    \/ \E c \in Clients, u \in BOOLEAN : CreateInsert(c, u)
    \/ \E c \in Clients : CreateInsertResp(c)
    \/ \E c \in Clients : CreateReturn(c)

SpecSeq == Init /\ [][SeqNext]_vars

\* the client whose snapshot is watched, and the client that writes to the store
Viewers == {"c1"}
Writers == {"c2"}

SyncNext ==
    \/ \E c \in Clients : Mount(c)
    \/ \E c \in Writers, rcv \in Users, p \in Props : CreateStart(c, rcv, p)
    \/ \E c \in Writers, e \in BOOLEAN : CreateCheck(c, e)
    \/ \E c \in Writers, u \in BOOLEAN : CreateInsert(c, u)
    \/ \E c \in Writers : CreateInsertResp(c)
    \/ \E c \in Writers : CreateReturn(c)
    \/ \E c \in Viewers : \E r \in fetches[c], ok \in BOOLEAN : FetchServe(c, r, ok)
    \/ \E c \in Viewers : \E r \in fetches[c] : FetchApply(c, r)
    \/ \E c \in Viewers : OnChange(c)
    \/ \E c \in Viewers : ChannelDrop(c)
    \/ \E c \in Viewers : ChannelRejoin(c)

SpecSync == Init /\ [][SyncNext]_vars

\* the same with the store always answering and the channel staying up
StableNext ==
    \/ \E c \in Clients : Mount(c)
    \/ \E c \in Writers, rcv \in Users, p \in Props : CreateStart(c, rcv, p)
    \/ \E c \in Writers, e \in BOOLEAN : CreateCheck(c, e)
    \/ \E c \in Writers : CreateInsert(c, FALSE)
    \/ \E c \in Writers : CreateInsertResp(c)
    \/ \E c \in Writers : CreateReturn(c)
    \/ \E c \in Viewers : \E r \in fetches[c] : FetchServe(c, r, TRUE)
    \/ \E c \in Viewers : \E r \in fetches[c] : FetchApply(c, r)
    \/ \E c \in Viewers : OnChange(c)

SpecStable == Init /\ [][StableNext]_vars

\* one conversation between u1 and u2 exists; both clients are mounted and
\* their initial fetches have been applied
FirstConversation ==
    [id |-> 1, participants |-> {"u1", "u2"}, propertyId |-> "p1",
     lastMessageAt |-> 1, unreadCount |-> 0]

InitMsg ==
    /\ convs = {FirstConversation}
    /\ msgs = {}
    /\ uniqueKey = FALSE
    /\ nextId = 2
    /\ now = 2
    /\ st = [c \in Clients |-> [loading |-> FALSE, conversations |-> <<FirstConversation>>,
                                currentConversation |-> NoRow]]
    /\ cc = [c \in Clients |-> IdleCall]
    /\ fetches = [c \in Clients |-> {}]
    /\ nreq = [c \in Clients |-> 2]
    /\ applied = [c \in Clients |-> 2]
    /\ chan = [c \in Clients |-> "joined"]
    /\ feed = [c \in Clients |-> 0]
    /\ mounted = [c \in Clients |-> TRUE]
    /\ mf = [c \in Clients |-> {}]
    /\ mreq = [c \in Clients |-> 0]
    /\ messages = [c \in Clients |-> <<>>]
    /\ reads = [c \in Clients |-> {}]
    /\ sc = [s \in SendCalls |-> IdleSend]
    /\ effDep = [c \in Clients |-> NoId]
    /\ InitFacade

\* c2 sends into the conversation; both clients handle the notifications
SendNext ==
    \/ \E c \in Writers, k \in 1..MaxClock, n \in 0..MaxFiles : SendStart(c, k, n)
    \/ \E c \in Writers, ok \in BOOLEAN : Upload(c, ok)
    \/ \E c \in Writers, ok \in BOOLEAN : AppendMessage(c, ok)
    \/ \E c \in Writers, ok \in BOOLEAN : Touch(c, ok)
    \/ \E c \in Writers : SendRefreshMessages(c)
    \/ \E c \in Writers : SendRefreshConversations(c)
    \/ \E c \in Writers : SendRefreshFailed(c)
    \/ \E c \in Writers : SendComplete(c)
    \/ \E c \in Writers : SendCatch(c)
    \/ \E c \in Writers : SendReturn(c)
    \/ \E c \in Clients : \E r \in fetches[c], ok \in BOOLEAN : FetchServe(c, r, ok)
    \/ \E c \in Clients : \E r \in fetches[c] : FetchApply(c, r)
    \/ \E c \in Writers : \E r \in mf[c], ok \in BOOLEAN : MsgFetchServe(c, r, ok)
    \/ \E c \in Writers : \E r \in mf[c] : MsgFetchApply(c, r)
    \/ \E c \in Clients : OnChange(c)

SpecSend == InitMsg /\ [][SendNext]_vars

\* c2 sends and handles the notifications of its own touches; c1 is idle
PipeNext ==
    \/ \E c \in Writers, k \in 1..MaxClock, n \in 0..MaxFiles : SendStart(c, k, n)
    \/ \E c \in Writers, ok \in BOOLEAN : Upload(c, ok)
    \/ \E c \in Writers, ok \in BOOLEAN : AppendMessage(c, ok)
    \/ \E c \in Writers, ok \in BOOLEAN : Touch(c, ok)
    \/ \E c \in Writers : SendRefreshMessages(c)
    \/ \E c \in Writers : SendRefreshConversations(c)
    \/ \E c \in Writers : SendRefreshFailed(c)
    \/ \E c \in Writers : SendComplete(c)
    \/ \E c \in Writers : SendCatch(c)
    \/ \E c \in Writers : SendReturn(c)
    \/ \E c \in Writers : \E r \in fetches[c], ok \in BOOLEAN : FetchServe(c, r, ok)
    \/ \E c \in Writers : \E r \in fetches[c] : FetchApply(c, r)
    \/ \E c \in Writers : \E r \in mf[c], ok \in BOOLEAN : MsgFetchServe(c, r, ok)
    \/ \E c \in Writers : \E r \in mf[c] : MsgFetchApply(c, r)
    \/ \E c \in Writers : OnChange(c)

SpecPipe == InitMsg /\ [][PipeNext]_vars

\* c2 calls handleSendMessage again while its first call is still running
OverlapNext ==
    \/ \E c \in SendCalls \ Viewers, n \in 0..MaxFiles : SendStart(c, 1, n)
    \/ \E c \in SendCalls \ Viewers : Upload(c, TRUE)
    \/ \E c \in SendCalls \ Viewers : AppendMessage(c, TRUE)
    \/ \E c \in SendCalls \ Viewers : Touch(c, TRUE)
    \/ \E c \in SendCalls \ Viewers : SendRefreshMessages(c)
    \/ \E c \in SendCalls \ Viewers : SendRefreshConversations(c)
    \/ \E c \in SendCalls \ Viewers : SendComplete(c)
    \/ \E c \in SendCalls \ Viewers : SendReturn(c)
    \/ \E c \in Writers : \E r \in fetches[c] : FetchServe(c, r, TRUE)
    \/ \E c \in Writers : \E r \in fetches[c] : FetchApply(c, r)
    \/ \E c \in Writers : \E r \in mf[c] : MsgFetchServe(c, r, TRUE)
    \/ \E c \in Writers : \E r \in mf[c] : MsgFetchApply(c, r)

SpecOverlap == InitMsg /\ [][OverlapNext]_vars

\* c2 starts conversations, with and without an initial message
StartNext ==
    \/ \E c \in Writers, rcv \in Users, p \in Props : CreateStart(c, rcv, p)
    \/ \E c \in Writers, e \in BOOLEAN : CreateCheck(c, e)
    \/ \E c \in Writers, u \in BOOLEAN : CreateInsert(c, u)
    \/ \E c \in Writers : CreateInsertResp(c)
    \/ \E c \in Writers, m \in BOOLEAN : StartAfterCreate(c, m)
    \/ \E c \in Writers, ok \in BOOLEAN : AppendMessage(c, ok)
    \/ \E c \in Writers, ok \in BOOLEAN : Touch(c, ok)
    \/ \E c \in Writers : StartRefresh(c)
    \/ \E c \in Writers : StartMessageFailed(c)
    \/ \E c \in Writers : StartComplete(c)
    \/ \E c \in Writers : StartReturn(c)
    \/ \E c \in Writers : \E r \in fetches[c], ok \in BOOLEAN : FetchServe(c, r, ok)
    \/ \E c \in Writers : \E r \in fetches[c] : FetchApply(c, r)

SpecStart == InitMsg /\ [][StartNext]_vars

\* u2 has sent one message into the conversation; u1's list shows it unread
FirstMessage == [id |-> 1, conversationId |-> 1, senderId |-> "u2", createdAt |-> 2,
                 content |-> Text, attachments |-> 0]

UnreadConversation == [FirstConversation EXCEPT !.lastMessageAt = 2, !.unreadCount = 1]

InitOpen ==
    /\ convs = {UnreadConversation}
    /\ msgs = {FirstMessage}
    /\ uniqueKey = FALSE
    /\ nextId = 2
    /\ now = 3
    /\ st = [c \in Clients |-> [loading |-> FALSE, conversations |-> <<UnreadConversation>>,
                                currentConversation |-> NoRow]]
    /\ cc = [c \in Clients |-> IdleCall]
    /\ fetches = [c \in Clients |-> {}]
    /\ nreq = [c \in Clients |-> 2]
    /\ applied = [c \in Clients |-> 2]
    /\ chan = [c \in Clients |-> "joined"]
    /\ feed = [c \in Clients |-> 0]
    /\ mounted = [c \in Clients |-> TRUE]
    /\ mf = [c \in Clients |-> {}]
    /\ mreq = [c \in Clients |-> 0]
    /\ messages = [c \in Clients |-> <<>>]
    /\ reads = [c \in Clients |-> {}]
    /\ sc = [s \in SendCalls |-> IdleSend]
    /\ effDep = [c \in Clients |-> NoId]
    /\ InitFacade

\* c1 opens conversations of its list
OpenNext ==
    \/ \E c \in Viewers, i \in 1..MaxClock : Select(c, i)
    \/ \E c \in Viewers : CurrentChangedEffect(c)
    \/ \E c \in Viewers : \E r \in mf[c], ok \in BOOLEAN : MsgFetchServe(c, r, ok)
    \/ \E c \in Viewers : \E r \in mf[c] : MsgFetchApply(c, r)
    \/ \E c \in Viewers : \E m \in reads[c], ok \in BOOLEAN : MarkReadServe(c, m, ok)
    \/ \E c \in Viewers : OnChange(c)
    \/ \E c \in Viewers : \E r \in fetches[c], ok \in BOOLEAN : FetchServe(c, r, ok)
    \/ \E c \in Viewers : \E r \in fetches[c] : FetchApply(c, r)

SpecOpen == InitOpen /\ [][OpenNext]_vars

\* ------------------------------------------------------------------ claims

SameKey(c, d) ==
    /\ {UserOf(c), cc[c].receiver} = {UserOf(d), cc[d].receiver}
    /\ cc[c].prop = cc[d].prop

RowsOfCall(c) ==
    {r \in convs : /\ r.participants = {UserOf(c), cc[c].receiver}
                   /\ r.propertyId = InsertProp(cc[c].prop)}

\* C1: when two clients run createConversation concurrently for the same
\* participant pair and property and the store has answered both inserts
\* (neither with a backend failure), exactly one conversation row exists
\* for that key and both calls return the same conversation id.
C1_ConcurrentCreateYieldsOne ==
    \A c \in Clients : \A d \in Clients \ {c} :
        ( /\ cc[c].pc = "inserted" /\ cc[d].pc = "inserted"
          /\ SameKey(c, d)
          /\ cc[c].err # "unavailable" /\ cc[d].err # "unavailable" )
        => ( /\ Cardinality(RowsOfCall(c)) = 1
             /\ CreateResult(cc[c]) # NoId
             /\ CreateResult(cc[c]) = CreateResult(cc[d]) )

\* C2: after any sequence of non-overlapping createConversation calls the
\* store holds at most one conversation per dedup key {unordered
\* participants, propertyId}, also for general conversations (no propertyId).
C2_AtMostOnePerKey ==
    \A r \in convs : \A q \in convs : KeyOf(r) = KeyOf(q) => r.id = q.id

\* C3: a createConversation call whose insert the store rejected as a
\* duplicate returns the existing conversation, not null.
C3_DuplicateResolved ==
    \A c \in Clients :
        (cc[c].pc = "done" /\ cc[c].err = "duplicate")
        => ( /\ cc[c].ret # NoId
             /\ \E r \in RowsOfCall(c) : r.id = cc[c].ret )

\* C4: the response of an older conversation-list request that arrives after
\* the response of a newer request was applied is discarded: it leaves the
\* snapshot's conversation list as it is.
C4_StaleResponseDiscarded ==
    [][\A c \in Clients :
          applied'[c] < applied[c] => st'[c].conversations = st[c].conversations]_vars

NotifyFetches(c) == {r \in fetches[c] : r.trigger = "notify"}

\* C5: at most one notification-triggered conversation-list fetch is
\* outstanding per client at any time.
C5_RefetchCoalesced ==
    \A c \in Clients : Cardinality(NotifyFetches(c)) <= 1

\* nothing is in flight: no create call, no fetch, no unhandled notification
Quiescent(c) ==
    /\ mounted[c]
    /\ chan[c] = "joined"
    /\ fetches[c] = {}
    /\ feed[c] = 0
    /\ \A d \in Clients : cc[d].pc \in {"idle", "done"}

\* C6: with the store answering every fetch and the channel up, once nothing
\* is in flight any more the local conversation list equals the store's list
\* of the conversations that contain the user.
C6_QuiescentConsistent ==
    \A c \in Viewers : Quiescent(c) => st[c].conversations = ListForUser(UserOf(c))

\* C8: a reconnection of the change channel after a drop issues exactly one
\* conversation-list re-fetch.
C8_RejoinRefetches ==
    [][\A c \in Clients :
          (chan[c] = "dropped" /\ chan'[c] = "joined") => nreq'[c] = nreq[c] + 1]_vars

\* a message row of one of the user's conversations was inserted in this step
MessageChangeFor(c) ==
    \E m \in msgs' \ msgs : \E r \in convs :
        r.id = m.conversationId /\ UserOf(c) \in r.participants

\* C7: every change relevant to the user's conversation set, on any table
\* (a message insert included), reaches the user's notification handler,
\* which re-fetches the conversation list.
C7_EveryChangeNotifies ==
    [][\A c \in Clients :
          (chan[c] = "joined" /\ MessageChangeFor(c)) => feed'[c] = feed[c] + 1]_vars

\* C9: markRead is invoked for an opened conversation only after the message
\* fetch of that open has completed successfully.
C9_MarkReadAfterFetch ==
    \A c \in Clients : \A m \in reads[c] :
        \E r \in mf[c] : r.seq = m.seq /\ r.phase = "done"

\* C10: a send whose attachment upload failed has appended no message, and
\* no step of a send that has not appended its message changes the
\* conversations or messages table (unreadCount and lastMessageAt stay as
\* they are); the send ends by throwing to its caller.
C10_UploadFailureAborts ==
    [][\A c \in SendCalls :
          /\ (sc'[c] # sc[c] /\ sc'[c].msg = NoMsg) => (convs' = convs /\ msgs' = msgs)
          /\ sc'[c].err = "upload"
             => ( /\ sc'[c].msg = NoMsg
                  /\ sc'[c].pc \in {"failed", "done"}
                  /\ sc'[c].pc = "done" => sc'[c].result = "threw" )]_vars

\* a send with two attachments ended after the second upload failed
C10_Witness ==
    \E c \in SendCalls :
        /\ sc[c].pc = "done" /\ sc[c].err = "upload" /\ sc[c].result = "threw"
        /\ sc[c].files = 2 /\ sc[c].uploaded = 1

\* C11: the steps of a send run in order. The message is appended only when
\* every upload has completed, the conversation is touched only after the
\* append (the message is in the log), the message refresh starts only after
\* the touch, the conversation-list refresh starts only after the message
\* refresh has completed, and success is reported only after the
\* conversation-list refresh has completed as well.
C11_SendStepsOrdered ==
    [][\A c \in SendCalls :
          sc'[c].pc # sc[c].pc =>
            /\ sc'[c].pc = "append" => sc'[c].uploaded = sc'[c].files
            /\ sc'[c].pc = "touch" => (sc[c].pc = "append" /\ sc'[c].msg \in msgs')
            /\ sc'[c].pc = "sent"
               => ( /\ sc[c].pc = "touch"
                    /\ \E r \in convs' : /\ r.id = sc[c].conv
                                         /\ r.lastMessageAt = sc[c].msg.createdAt )
            /\ sc'[c].pc = "refreshMsgs" => sc[c].pc = "sent"
            /\ sc'[c].pc = "refreshConvs"
               => ( /\ sc[c].pc = "refreshMsgs"
                    /\ \E r \in mf[HookOf(c)] : r.seq = sc[c].wait /\ r.phase = "done" )
            /\ sc'[c].result = "true"
               => ( /\ sc[c].pc = "refreshConvs"
                    /\ ~ \E r \in fetches[HookOf(c)] : r.seq = sc[c].wait )]_vars

\* a send with two attachments went through every step and reported success
C11_Witness ==
    \E c \in SendCalls :
        /\ sc[c].pc = "done" /\ sc[c].result = "true"
        /\ sc[c].files = 2 /\ sc[c].uploaded = 2 /\ sc[c].msg \in msgs

\* a handleSendMessage call that has started and not yet returned
InFlight(s) == sc[s].pc \notin {"idle", "done"}

\* C12: sends of one client into one conversation are serialized: while one
\* send into a conversation is in flight, no second send of the same client
\* into the same conversation is in flight.
C12_SendsSerialized ==
    \A s \in SendCalls : \A t \in SendCalls \ {s} :
        (HookOf(s) = HookOf(t) /\ InFlight(s) /\ InFlight(t))
        => sc[s].conv # sc[t].conv

\* C13: a facade operation that fails leaves the snapshot as it was. For the
\* conversation-list refresh: when the response of a failed fetchConversations
\* is handled, the conversation list and the current conversation of the
\* client are what they were.
C13_FailureKeepsSnapshot ==
    [][\A c \in Clients : \A r \in fetches[c] :
          (r.phase = "answered" /\ ~r.ok /\ r \notin fetches'[c])
          => ( /\ st'[c].conversations = st[c].conversations
               /\ st'[c].currentConversation = st[c].currentConversation )]_vars

\* C14: when handleCreateConversation was called with an initialMessage,
\* createConversation gave it a conversation and sending the message fails,
\* the step that handles the failure changes neither the store nor the
\* snapshot (the conversation stays persisted and current), and the call
\* returns the id of that conversation, not null.
C14_InitialMessageFailureKeepsConversation ==
    [][\A c \in Clients :
          (hc[c].pc = "sending" /\ hc'[c].pc = "done")
          => ( /\ hc'[c].ret = hc[c].conv
               /\ hc'[c].ret # NoId
               /\ \E r \in convs' : r.id = hc'[c].ret
               /\ convs' = convs
               /\ st' = st )]_vars

\* a newly inserted conversation whose initial message was rejected by the
\* store: the call is over, the conversation is stored, listed and current
C14_Witness ==
    \E c \in Clients :
        /\ hc[c].pc = "done" /\ hc[c].initialMessage /\ hc[c].sendErr = "append"
        /\ hc[c].ret # NoId /\ hc[c].ret # FirstConversation.id
        /\ \E r \in convs : r.id = hc[c].ret
        /\ CurId(st[c]) = hc[c].ret
        /\ hc[c].ret \in KnownIds(c)

\* ------------------------------------------------- removing conversations

\* a second conversation of u1, with u3, older than the first
SecondConversation ==
    [id |-> 2, participants |-> {"u1", "u3"}, propertyId |-> Null,
     lastMessageAt |-> 1, unreadCount |-> 0]

\* both clients mounted; u1's list shows two conversations
InitRemove ==
    /\ convs = {UnreadConversation, SecondConversation}
    /\ msgs = {FirstMessage}
    /\ uniqueKey = FALSE
    /\ nextId = 3
    /\ now = 3
    /\ st = [c \in Clients |->
               [loading |-> FALSE, conversations |-> ListForUser(UserOf(c)),
                currentConversation |-> NoRow]]
    /\ cc = [c \in Clients |-> IdleCall]
    /\ fetches = [c \in Clients |-> {}]
    /\ nreq = [c \in Clients |-> 2]
    /\ applied = [c \in Clients |-> 2]
    /\ chan = [c \in Clients |-> "joined"]
    /\ feed = [c \in Clients |-> 0]
    /\ mounted = [c \in Clients |-> TRUE]
    /\ mf = [c \in Clients |-> {}]
    /\ mreq = [c \in Clients |-> 0]
    /\ messages = [c \in Clients |-> <<>>]
    /\ reads = [c \in Clients |-> {}]
    /\ sc = [s \in SendCalls |-> IdleSend]
    /\ effDep = [c \in Clients |-> NoId]
    /\ InitFacade

\* c1 selects and removes conversations of its list (the message requests of
\* a selection stay unanswered)
RemoveNext ==
    \/ \E c \in Viewers, i \in 1..MaxClock : Select(c, i)
    \/ \E c \in Viewers, k \in 1..MaxClock : RemoveStart(c, k)
    \/ \E c \in Viewers, ok \in BOOLEAN : DeleteServe(c, ok)
    \/ \E c \in Viewers : RemoveReturn(c)
    \/ \E c \in Viewers : RemoveReset(c)
    \/ \E c \in Viewers : OnChange(c)
    \/ \E c \in Viewers : \E r \in fetches[c] : FetchServe(c, r, TRUE)
    \/ \E c \in Viewers : \E r \in fetches[c] : FetchApply(c, r)

SpecRemove == InitRemove /\ [][RemoveNext]_vars

\* ids of the conversations in the store
StoredIds == {r.id : r \in convs}

\* C15: handleDeleteConversation clears the selection at its start exactly
\* when the conversation to remove is the current one, its later steps leave
\* the selection alone, the row is removed by the store's delete and by
\* nothing else, and a call that returns true has removed the row. So a
\* successful remove of the current conversation ends with no selection
\* unless the user selected again meanwhile, and removing another
\* conversation leaves the selection as it was.
C15_RemoveClearsCurrent ==
    [][\A c \in Clients :
          /\ (dc[c].pc = "idle" /\ dc'[c].pc = "deleting")
             => st'[c].currentConversation =
                  IF CurId(st[c]) = dc'[c].conv THEN NoRow ELSE st[c].currentConversation
          /\ (dc[c].pc \in {"deleting", "answered"} /\ dc'[c] # dc[c])
             => st'[c].currentConversation = st[c].currentConversation
          /\ (dc'[c].pc = "done" /\ dc'[c].ret = "true")
             => ~ \E r \in convs' : r.id = dc'[c].conv
          /\ StoredIds \ StoredIds' # {}
             => \E d \in Clients : /\ dc[d].pc = "deleting" /\ dc'[d].pc = "answered"
                                   /\ dc'[d].ok
                                   /\ StoredIds \ StoredIds' = {dc[d].conv}]_vars

\* the current conversation was removed successfully and nothing is selected
C15_Witness ==
    \E c \in Clients :
        /\ dc[c].pc = "done" /\ dc[c].ret = "true" /\ dc[c].wasCurrent
        /\ CurId(st[c]) = NoId
        /\ ~ \E r \in convs : r.id = dc[c].conv

\* --------------------------------------------------------- no signed-in user

\* nobody is signed in and no hook is mounted; the store holds a conversation
InitAnon ==
    /\ convs = {FirstConversation}
    /\ msgs = {}
    /\ uniqueKey = FALSE
    /\ nextId = 2
    /\ now = 2
    /\ st = [c \in Clients |-> [loading |-> FALSE, conversations |-> <<>>,
                                currentConversation |-> NoRow]]
    /\ cc = [c \in Clients |-> IdleCall]
    /\ fetches = [c \in Clients |-> {}]
    /\ nreq = [c \in Clients |-> 0]
    /\ applied = [c \in Clients |-> 0]
    /\ chan = [c \in Clients |-> "none"]
    /\ feed = [c \in Clients |-> 0]
    /\ mounted = [c \in Clients |-> FALSE]
    /\ mf = [c \in Clients |-> {}]
    /\ mreq = [c \in Clients |-> 0]
    /\ messages = [c \in Clients |-> <<>>]
    /\ reads = [c \in Clients |-> {}]
    /\ sc = [s \in SendCalls |-> IdleSend]
    /\ effDep = [c \in Clients |-> NoId]
    /\ hc = [c \in Clients |-> IdleStart]
    /\ dc = [c \in Clients |-> IdleRemove]
    /\ signedIn = [c \in Clients |-> FALSE]
    /\ lastRead = {}
    /\ fc = [c \in Clients |-> "idle"]
    /\ InitView

\* c1's page is used while its user signs in and out
AnonNext ==
    \/ \E c \in Viewers : Mount(c)
    \/ \E c \in Viewers : SignIn(c)
    \/ \E c \in Viewers : SignOut(c)
    \/ \E c \in Viewers : FetchCall(c)
    \/ \E c \in Viewers : FetchCallReturn(c)
    \/ \E c \in Viewers : CreateStart(c, "u3", "p1")
    \/ \E c \in Viewers : CreateCheck(c, FALSE)
    \/ \E c \in Viewers : CreateInsert(c, FALSE)
    \/ \E c \in Viewers : CreateInsertResp(c)
    \/ \E c \in Viewers : CreateReturn(c)
    \/ \E c \in Viewers : \E r \in fetches[c] : FetchServe(c, r, TRUE)
    \/ \E c \in Viewers : \E r \in fetches[c] : FetchApply(c, r)

SpecAnon == InitAnon /\ [][AnonNext]_vars

\* sequence numbers of the selects of c that are in flight
FetchSeqs(F) == {r.seq : r \in F}

\* C16: while no user is signed in at a client, no step of that client issues
\* a store request for the conversation list or for a creation, none opens a
\* change subscription, and the mount of the hook, a call of
\* fetchConversations and a call of createConversation leave the snapshot
\* unchanged (createConversation returns null).
C16_NoIdentityNoOp ==
    [][\A c \in Clients :
          (~signedIn[c] /\ ~signedIn'[c])
          => ( /\ nreq'[c] = nreq[c]
               /\ FetchSeqs(fetches'[c]) \subseteq FetchSeqs(fetches[c])
               /\ chan'[c] # "joined"
               /\ cc[c].pc = "idle"
                  => (cc'[c].pc \in {"idle", "done"} /\ cc'[c].ret = NoId)
               /\ \/ mounted'[c] # mounted[c]
                  \/ fc[c] = "idle" /\ fc'[c] # "idle"
                  \/ cc[c].pc = "idle" /\ cc'[c].pc # "idle"
                  => (st'[c] = st[c] /\ convs' = convs) )]_vars

\* a mounted hook without a user after a call of fetchConversations and a
\* call of createConversation: nothing was requested, nothing is subscribed
C16_Witness ==
    \E c \in Clients :
        /\ ~signedIn[c] /\ mounted[c]
        /\ fc[c] = "noUser"
        /\ cc[c].pc = "done" /\ cc[c].ret = NoId /\ cc[c].receiver # Null
        /\ nreq[c] = 0 /\ fetches[c] = {} /\ chan[c] = "none"
        /\ st[c].conversations = <<>>
        /\ \E r \in convs : UserOf(c) \in r.participants

\* no appended message of conversation k is still waiting for its touch
AllCounted(k) == \A s \in SendCalls : ~(sc[s].conv = k /\ sc[s].pc = "touch")

\* C17: for every conversation and every participant of it, the stored
\* unreadCount equals the number of messages of the conversation authored by
\* the other participant after that user's last-read timestamp; so the
\* sender's own message leaves the count of the sender at what it was.
\* (Stated for the states in which every appended message has been counted.)
C17_UnreadMatchesDerivation ==
    \A r \in convs : \A u \in r.participants :
        AllCounted(r.id) => r.unreadCount = UnreadAfter(r.id, u, LastReadAt(r.id, u))

\* ------------------------------------------------ reading while messages arrive

\* u1 opens the conversation while u2 sends into it (the re-fetches of u1's
\* list stay unanswered: the list keeps showing the conversation as unread)
ReadNext ==
    \/ \E c \in Viewers, i \in 1..MaxClock : Select(c, i)
    \/ \E c \in Viewers : \E m \in reads[c], ok \in BOOLEAN : MarkReadServe(c, m, ok)
    \/ \E c \in Viewers : OnChange(c)
    \/ \E c \in Writers : SendStart(c, 1, 0)
    \/ \E c \in Writers : AppendMessage(c, TRUE)
    \/ \E c \in Writers : Touch(c, TRUE)
    \/ \E c \in Writers : SendRefreshMessages(c)
    \/ \E c \in Writers : \E r \in mf[c] : MsgFetchServe(c, r, TRUE)
    \/ \E c \in Writers : \E r \in mf[c] : MsgFetchApply(c, r)
    \/ \E c \in Writers : SendRefreshConversations(c)
    \/ \E c \in Writers : \E r \in fetches[c] : FetchServe(c, r, TRUE)
    \/ \E c \in Writers : \E r \in fetches[c] : FetchApply(c, r)
    \/ \E c \in Writers : SendComplete(c)
    \/ \E c \in Writers : SendReturn(c)

SpecRead == InitOpen /\ [][ReadNext]_vars

\* no markRead of u in k was served while a message stamped up to its T was
\* appended but not yet counted
NoLate(k, u) == \A x \in lastRead : (x.conv = k /\ x.user = u) => x.late = 0

\* messages by others stamped after t that are appended but not yet counted
PendingAfter(k, u, t) ==
    Cardinality({s \in SendCalls : /\ sc[s].pc = "touch" /\ sc[s].conv = k
                                   /\ sc[s].msg.senderId # u
                                   /\ sc[s].msg.createdAt > t})

C19_OpenClearsUnread ==
    [][\A c \in Viewers :
          /\ ( /\ CurId(st'[c]) # NoId
               /\ st'[c].currentConversation # st[c].currentConversation
               /\ st'[c].currentConversation.unreadCount > 0 )
             => \E m \in reads'[c] \ reads[c] : m.conv = CurId(st'[c])
          /\ \A m \in reads[c] \ reads'[c] :
                (lastRead' # lastRead \/ \E r \in convs : r.id = m.conv /\ r.unreadCount = 0)
                => ( /\ \A r \in convs' : r.id = m.conv => r.unreadCount = 0
                     /\ UnreadAfter(m.conv, UserOf(c), LastReadAt(m.conv, UserOf(c)))' = 0 )]_vars

\* u1 has the conversation open that its list showed with one unread message
\* of u2; the markRead was carried out and the stored count is 0
C19_Witness ==
    \E c \in Viewers : \E r \in convs :
        /\ CurId(st[c]) = r.id
        /\ st[c].currentConversation.unreadCount = 1
        /\ \E x \in lastRead : x.conv = r.id /\ x.user = UserOf(c)
        /\ \E m \in msgs : m.conversationId = r.id /\ m.senderId # UserOf(c)
        /\ r.unreadCount = 0
        /\ UnreadAfter(r.id, UserOf(c), LastReadAt(r.id, UserOf(c))) = 0

\* ------------------------------------------- two clients send into one conversation

\* c1 and c2 each send into the conversation they share; nothing fails
CrossNext ==
    \/ \E c \in Clients : SendStart(c, 1, 0)
    \/ \E c \in Clients : AppendMessage(c, TRUE)
    \/ \E c \in Clients : Touch(c, TRUE)
    \/ \E c \in Clients : SendRefreshMessages(c)
    \/ \E c \in Clients : \E r \in mf[c] : MsgFetchServe(c, r, TRUE)
    \/ \E c \in Clients : \E r \in mf[c] : MsgFetchApply(c, r)
    \/ \E c \in Clients : SendRefreshConversations(c)
    \/ \E c \in Clients : \E r \in fetches[c] : FetchServe(c, r, TRUE)
    \/ \E c \in Clients : \E r \in fetches[c] : FetchApply(c, r)
    \/ \E c \in Clients : SendComplete(c)
    \/ \E c \in Clients : SendReturn(c)

SpecCross == InitMsg /\ [][CrossNext]_vars

\* the createdAt values of the messages of conversation k
StampsOf(k) == {m.createdAt : m \in {x \in msgs : x.conversationId = k}}

\* C20: for every conversation that has messages, lastMessageAt is the
\* greatest createdAt among them, also after sends of different clients into
\* the conversation have interleaved. (Stated for the states in which every
\* appended message has had its touch.)
C20_LastMessageAtIsMax ==
    \A r \in convs :
        (StampsOf(r.id) # {} /\ AllCounted(r.id))
        => ( /\ r.lastMessageAt \in StampsOf(r.id)
             /\ \A t \in StampsOf(r.id) : r.lastMessageAt >= t )

\* ------------------------------------------------------- listing conversations

\* a conversations row whose unread count column holds no value
NoCount == 0 - 1

\* unreadCount: conv.unread_count || 0
UnreadOrZero(count) == IF count = NoCount THEN 0 ELSE count

\* the row as useFetchConversations hands it to the state
MapRow(r) == [r EXCEPT !.unreadCount = UnreadOrZero(@)]

\* rows the store may hold under id i, written by this or by other code
RowsWithId(i) ==
    [id : {i}, participants : {{"u1", "u2"}, {"u1", "u3"}, {"u2", "u3"}},
     propertyId : {Null}, lastMessageAt : 1..MaxClock, unreadCount : {NoCount, 0, 1}]

\* any store of up to two conversations; no hook is mounted yet
InitList ==
    /\ \E A \in {{}} \cup {{r} : r \in RowsWithId(1)},
          B \in {{}} \cup {{r} : r \in RowsWithId(2)} : convs = A \cup B
    /\ msgs = {}
    /\ uniqueKey = FALSE
    /\ nextId = 3
    /\ now = MaxClock
    /\ st = [c \in Clients |-> [loading |-> FALSE, conversations |-> <<>>,
                                currentConversation |-> NoRow]]
    /\ cc = [c \in Clients |-> IdleCall]
    /\ fetches = [c \in Clients |-> {}]
    /\ nreq = [c \in Clients |-> 0]
    /\ applied = [c \in Clients |-> 0]
    /\ chan = [c \in Clients |-> "none"]
    /\ feed = [c \in Clients |-> 0]
    /\ mounted = [c \in Clients |-> FALSE]
    /\ mf = [c \in Clients |-> {}]
    /\ mreq = [c \in Clients |-> 0]
    /\ messages = [c \in Clients |-> <<>>]
    /\ reads = [c \in Clients |-> {}]
    /\ sc = [s \in SendCalls |-> IdleSend]
    /\ effDep = [c \in Clients |-> NoId]
    /\ InitFacade

\* c1 mounts and loads its list; the store does not change
ListNext ==
    \/ \E c \in Viewers : Mount(c)
    \/ \E c \in Viewers : \E r \in fetches[c], ok \in BOOLEAN : FetchServe(c, r, ok)
    \/ \E c \in Viewers : \E r \in fetches[c] : FetchApply(c, r)

SpecList == InitList /\ [][ListNext]_vars

\* the list the claim describes for user u: the rows containing u, newest
\* lastMessageAt first, a missing unread count reported as 0
ListedFor(u) == [i \in 1..Len(ListForUser(u)) |-> MapRow(ListForUser(u)[i])]

\* C21: when the response of a successful select has been applied, the
\* client's list is exactly the conversations whose participants contain the
\* user, in descending order of lastMessageAt, each with its stored
\* unreadCount, a missing count reported as 0.
C21_ListForUser ==
    [][\A c \in Clients : \A r \in fetches[c] :
          (r.phase = "answered" /\ r.ok /\ r \notin fetches'[c])
          => st'[c].conversations = ListedFor(UserOf(c))]_vars

\* ------------------------------------------------ calls by a non-participant

\* c2 (u2) sends into and removes conversations by id, its own (1) and the
\* one of u1 and u3 (2)
GuardNext ==
    \/ \E c \in Writers, k \in 1..MaxMsgs : SendCall(c, k, 0)
    \/ \E c \in Writers, ok \in BOOLEAN : AppendMessage(c, ok)
    \/ \E c \in Writers, ok \in BOOLEAN : Touch(c, ok)
    \/ \E c \in Writers : SendRefreshMessages(c)
    \/ \E c \in Writers : SendRefreshConversations(c)
    \/ \E c \in Writers : SendComplete(c)
    \/ \E c \in Writers : SendCatch(c)
    \/ \E c \in Writers : SendReturn(c)
    \/ \E c \in Writers, k \in 1..MaxMsgs : RemoveCall(c, k)
    \/ \E c \in Writers, ok \in BOOLEAN : DeleteServe(c, ok)
    \/ \E c \in Writers : RemoveReturn(c)
    \/ \E c \in Writers : RemoveReset(c)
    \/ \E c \in Writers : \E r \in fetches[c] : FetchServe(c, r, TRUE)
    \/ \E c \in Writers : \E r \in fetches[c] : FetchApply(c, r)
    \/ \E c \in Writers : \E r \in mf[c] : MsgFetchServe(c, r, TRUE)
    \/ \E c \in Writers : \E r \in mf[c] : MsgFetchApply(c, r)
    \/ \E c \in Writers : OnChange(c)

SpecGuard == InitRemove /\ [][GuardNext]_vars

\* the conversation k is stored and u is not one of its participants
Foreign(u, k) == \E r \in convs : r.id = k /\ u \notin r.participants

\* C22: the append of a sender who is not a participant of the stored
\* conversation fails with NotAuthorized, and so does the delete of such a
\* requester; the step leaves every Conversation and Message row as it was
\* (no message added, nothing deleted, unreadCount and lastMessageAt
\* unchanged), and the failed send never reaches the touch.
C22_NonParticipantRejected ==
    [][\A c \in Clients :
          /\ (sc[c].pc = "append" /\ sc'[c] # sc[c] /\ Foreign(UserOf(c), sc[c].conv))
             => /\ sc'[c].pc = "failed" /\ sc'[c].err = "NotAuthorized"
                /\ convs' = convs /\ msgs' = msgs
          /\ (dc[c].pc = "deleting" /\ dc'[c] # dc[c] /\ Foreign(UserOf(c), dc[c].conv))
             => /\ dc'[c].pc = "answered" /\ ~dc'[c].ok /\ dc'[c].err = "NotAuthorized"
                /\ convs' = convs /\ msgs' = msgs
          /\ sc'[c].pc = "touch" => ~Foreign(UserOf(c), sc'[c].conv)]_vars

\* c2's send into and its remove of the conversation of u1 and u3 have both
\* returned, rejected with NotAuthorized
C22_Witness ==
    \E c \in Clients :
        /\ sc[c].pc = "done" /\ sc[c].err = "NotAuthorized" /\ sc[c].result = "threw"
        /\ dc[c].pc = "done" /\ dc[c].err = "NotAuthorized" /\ dc[c].ret = "false"
        /\ convs = {UnreadConversation, SecondConversation} /\ msgs = {FirstMessage}

\* ------------------------------------------------------------ cascade delete

\* c1 (u1) removes conversations of its list while c2 (u2) sends into the
\* conversation the two share
CascadeNext ==
    \/ \E c \in Viewers, k \in 1..MaxMsgs : RemoveStart(c, k)
    \/ \E c \in Viewers, ok \in BOOLEAN : DeleteServe(c, ok)
    \/ \E c \in Viewers : RemoveReturn(c)
    \/ \E c \in Viewers : RemoveReset(c)
    \/ \E c \in Writers, k \in 1..MaxMsgs : SendStart(c, k, 0)
    \/ \E c \in Writers : AppendMessage(c, TRUE)
    \/ \E c \in Writers : Touch(c, TRUE)
    \/ \E c \in Writers : SendRefreshMessages(c)
    \/ \E c \in Writers : SendRefreshConversations(c)
    \/ \E c \in Writers : SendComplete(c)
    \/ \E c \in Writers : SendCatch(c)
    \/ \E c \in Writers : SendReturn(c)
    \/ \E c \in Writers : \E r \in fetches[c] : FetchServe(c, r, TRUE)
    \/ \E c \in Writers : \E r \in fetches[c] : FetchApply(c, r)
    \/ \E c \in Writers : \E r \in mf[c] : MsgFetchServe(c, r, TRUE)
    \/ \E c \in Writers : \E r \in mf[c] : MsgFetchApply(c, r)
    \/ \E c \in Clients : OnChange(c)

SpecCascade == InitRemove /\ [][CascadeNext]_vars

\* ids of the conversations listForUser(u) returns
ListedIds(u) == {ListForUser(u)[i].id : i \in 1..Len(ListForUser(u))}

\* C23: when the delete of a participant succeeds, listForConversation of the
\* deleted id is empty and no user's list holds the conversation; the
\* conversation does not come back, and at no time does the store hold a
\* message of a conversation it does not hold, also when a send into the
\* conversation is under way while it is deleted.
C23_CascadeDelete ==
    [][/\ \A c \in Clients :
            (dc[c].pc = "deleting" /\ dc'[c].pc = "answered" /\ dc'[c].ok)
            => /\ IsParticipant(UserOf(c), dc[c].conv)
               /\ ListForConversation(dc[c].conv)' = <<>>
               /\ \A u \in Users : dc[c].conv \notin ListedIds(u)'
       /\ StoredIds' \subseteq StoredIds
       /\ \A m \in msgs' : m.conversationId \in StoredIds']_vars

\* c1 removed the conversation that held a message while c2 was sending into
\* it: c1's call returned true, c2's send failed, and nothing of the
\* conversation is left
C23_Witness ==
    \E c \in Clients, w \in Clients :
        /\ dc[c].pc = "done" /\ dc[c].ret = "true" /\ dc[c].conv = FirstMessage.conversationId
        /\ sc[w].pc = "done" /\ sc[w].conv = dc[c].conv /\ sc[w].msg # NoMsg
        /\ sc[w].err = "touch"
        /\ ListForConversation(dc[c].conv) = <<>>
        /\ \A u \in Users : dc[c].conv \notin ListedIds(u)

\* ------------------------------------------------- sending from the view

\* c2 selects files and sends from the view of a conversation of its list;
\* uploads, the append and the touch may fail
ViewNext ==
    \/ \E c \in Writers, n \in 0..MaxFiles : FileChange(c, n)
    \/ \E c \in Writers, k \in 1..MaxMsgs, content \in Contents : ViewSend(c, k, content)
    \/ \E c \in Writers, ok \in BOOLEAN : Upload(c, ok)
    \/ \E c \in Writers, ok \in BOOLEAN : AppendMessage(c, ok)
    \/ \E c \in Writers, ok \in BOOLEAN : Touch(c, ok)
    \/ \E c \in Writers : SendRefreshMessages(c)
    \/ \E c \in Writers : SendRefreshConversations(c)
    \/ \E c \in Writers : SendComplete(c)
    \/ \E c \in Writers : SendCatch(c)
    \/ \E c \in Writers : ViewSendDone(c)
    \/ \E c \in Writers : \E r \in fetches[c] : FetchServe(c, r, TRUE)
    \/ \E c \in Writers : \E r \in fetches[c] : FetchApply(c, r)
    \/ \E c \in Writers : \E r \in mf[c] : MsgFetchServe(c, r, TRUE)
    \/ \E c \in Writers : \E r \in mf[c] : MsgFetchApply(c, r)

SpecView == InitMsg /\ [][ViewNext]_vars

\* C30: when the send the view awaits completes, isSending is false; the
\* selected files are emptied when the send succeeded and are as they were
\* when it failed. isSending is true exactly while the view awaits a send.
C30_ViewAfterSend ==
    [][\A c \in Clients :
          /\ (vs[c].pc = "awaiting" /\ vs'[c].pc = "idle")
             => /\ ~vs'[c].isSending
                /\ sc[c].result = "true" => vs'[c].selectedFiles = 0
                /\ sc[c].result # "true" => vs'[c].selectedFiles = vs[c].selectedFiles
          /\ vs'[c].isSending <=> vs'[c].pc = "awaiting"]_vars

\* a send with files succeeded and emptied the selection; the user selected
\* files again and the next send failed: the view is no longer sending and
\* still holds the files
C30_Witness ==
    \E c \in Clients :
        /\ vs[c].pc = "idle" /\ vs[c].outcome = "threw"
        /\ ~vs[c].isSending /\ vs[c].selectedFiles > 0
        /\ \E m \in msgs : m.senderId = UserOf(c) /\ m.attachments > 0

\* ------------------------------------------------------------ empty messages

\* the calls of c2: from its view, and directly (a second caller of the facade)
OwnCalls == SendCalls \ Viewers

\* c2 sends texts, empty and blank ones among them, from the view, through the
\* facade directly, and as the initial message of a new conversation
BlankNext ==
    \/ \E c \in Writers, n \in {0, MaxFiles} : FileChange(c, n)
    \/ \E c \in Writers, content \in Contents : ViewSend(c, 1, content)
    \/ \E c \in Writers : ViewSendDone(c)
    \/ \E c \in OwnCalls \ Writers : SendCallWith(c, 1, EmptyStr, 0)
    \/ \E c \in OwnCalls \ Writers : SendReturn(c)
    \/ \E c \in Writers : CreateStart(c, "u3", "p1")
    \/ \E c \in Writers : CreateCheck(c, FALSE)
    \/ \E c \in Writers : CreateInsert(c, FALSE)
    \/ \E c \in Writers : CreateInsertResp(c)
    \/ \E c \in Writers, content \in Contents \cup {Absent} : StartWith(c, content)
    \/ \E c \in Writers : StartRefresh(c)
    \/ \E c \in Writers : StartComplete(c)
    \/ \E c \in Writers : StartReturn(c)
    \/ \E c \in Writers : Upload(c, TRUE)
    \/ \E c \in OwnCalls : AppendMessage(c, TRUE)
    \/ \E c \in Writers : Touch(c, TRUE)
    \/ \E c \in Writers : SendRefreshMessages(c)
    \/ \E c \in Writers : SendRefreshConversations(c)
    \/ \E c \in Writers : SendComplete(c)
    \/ \E c \in OwnCalls : SendCatch(c)
    \/ \E c \in Writers : \E r \in fetches[c] : FetchServe(c, r, TRUE)
    \/ \E c \in Writers : \E r \in fetches[c] : FetchApply(c, r)
    \/ \E c \in Writers : \E r \in mf[c] : MsgFetchServe(c, r, TRUE)
    \/ \E c \in Writers : \E r \in mf[c] : MsgFetchApply(c, r)

SpecBlank == InitMsg /\ [][BlankNext]_vars

\* C24: no stored message has empty content and no attachments; an append
\* with empty content and no attachment urls fails with InvalidMessage and
\* adds nothing; and the view starts no send when it is asked to send blank
\* (empty or white-space only) content with no file selected.
C24_NoEmptyMessage ==
    [][/\ \A m \in msgs' : ~(m.content = EmptyStr /\ m.attachments = 0)
       /\ \A s \in SendCalls :
            (sc[s].pc = "append" /\ sc'[s] # sc[s]
               /\ sc[s].content = EmptyStr /\ sc[s].uploaded = 0)
            => sc'[s].pc = "failed" /\ sc'[s].err = "InvalidMessage" /\ msgs' = msgs
       /\ \A c \in Clients :
            /\ (vs[c].pc = "idle" /\ vs'[c].pc = "awaiting")
               => ~(vs'[c].asked \in {EmptyStr, Blank} /\ vs[c].selectedFiles = 0)
            /\ (vs'[c].asked # vs[c].asked /\ vs'[c].asked \in {EmptyStr, Blank}
                   /\ vs[c].selectedFiles = 0)
               => vs'[c].pc = "idle" /\ ~vs'[c].isSending /\ sc' = sc]_vars

\* the view was asked to send a blank text with no file selected and sent
\* nothing, and a direct call of the facade with an empty text came back
\* rejected with InvalidMessage
C24_Witness ==
    /\ \E c \in Clients :
          /\ vs[c].asked = Blank /\ vs[c].pc = "idle" /\ vs[c].selectedFiles = 0
          /\ sc[c].pc = "idle" /\ vs[c].outcome = Null
    /\ \E s \in SendCalls :
          sc[s].pc = "done" /\ sc[s].err = "InvalidMessage" /\ sc[s].result = "threw"
    /\ msgs = {}

\* ------------------------------------------------ the handler only reads

\* c1 removes conversations, both clients handle the notifications, and the
\* database may be reset
SchemaNext ==
    \/ \E c \in Viewers, k \in 1..MaxMsgs : RemoveStart(c, k)
    \/ \E c \in Viewers : DeleteServe(c, TRUE)
    \/ \E c \in Viewers : RemoveReturn(c)
    \/ \E c \in Viewers : RemoveReset(c)
    \/ \E c \in Clients : OnChange(c)
    \/ DropTables
    \/ \E c \in Clients : \E r \in fetches[c], created \in BOOLEAN : EnsureTables(c, r, created)
    \/ \E c \in Clients : \E r \in fetches[c], ok \in BOOLEAN : FetchServe(c, r, ok)
    \/ \E c \in Clients : \E r \in fetches[c] : FetchApply(c, r)

SpecSchema == InitRemove /\ [][SchemaNext]_vars

\* C25: no step of a re-fetch that a change notification started changes a
\* Conversation row, a Message row or the store's schema.
C25_NotifyOnlyReads ==
    [][\A c \in Clients : \A r \in fetches[c] :
          (r.trigger = "notify" /\ r \notin fetches'[c])
          => /\ convs' = convs /\ msgs' = msgs
             /\ tables' = tables /\ uniqueKey' = uniqueKey]_vars

\* ------------------------------------------------------ one entry per id

\* c2 creates conversations; both clients handle the notifications of the
\* inserts, c2 those of its own
PrependNext ==
    \/ \E c \in Writers, rcv \in Users, p \in Props : CreateStart(c, rcv, p)
    \/ \E c \in Writers : CreateCheck(c, FALSE)
    \/ \E c \in Writers : CreateInsert(c, FALSE)
    \/ \E c \in Writers : CreateInsertResp(c)
    \/ \E c \in Writers : CreateReturn(c)
    \/ \E c \in Clients : OnChange(c)
    \/ \E c \in Clients : \E r \in fetches[c], ok \in BOOLEAN : FetchServe(c, r, ok)
    \/ \E c \in Clients : \E r \in fetches[c] : FetchApply(c, r)

SpecPrepend == InitMsg /\ [][PrependNext]_vars

\* C26: the local conversation list of every client holds each conversation
\* id at most once.
C26_ListHasNoDuplicate ==
    \A c \in Clients :
        \A i, j \in 1..Len(st[c].conversations) :
            st[c].conversations[i].id = st[c].conversations[j].id => i = j

\* ------------------------------------------------------- the loading flag

\* c2 mounts, which fetches twice, and creates conversations with u3 while
\* the fetches are under way; every store call may fail
LoadNext ==
    \/ \E c \in Writers : Mount(c)
    \/ \E c \in Writers : CreateStart(c, "u3", "p1")
    \/ \E c \in Writers, e \in BOOLEAN : CreateCheck(c, e)
    \/ \E c \in Writers, u \in BOOLEAN : CreateInsert(c, u)
    \/ \E c \in Writers : CreateInsertResp(c)
    \/ \E c \in Writers : CreateReturn(c)
    \/ \E c \in Writers : \E r \in fetches[c], ok \in BOOLEAN : FetchServe(c, r, ok)
    \/ \E c \in Writers : \E r \in fetches[c] : FetchApply(c, r)

\* the store answers every call and every answer is handled
LoadSettle ==
    \/ \E c \in Writers, e \in BOOLEAN : CreateCheck(c, e)
    \/ \E c \in Writers, u \in BOOLEAN : CreateInsert(c, u)
    \/ \E c \in Writers : CreateInsertResp(c)
    \/ \E c \in Writers : \E r \in fetches[c], ok \in BOOLEAN : FetchServe(c, r, ok)
    \/ \E c \in Writers : \E r \in fetches[c] : FetchApply(c, r)

SpecLoad == Init /\ [][LoadNext]_vars /\ WF_vars(LoadSettle)

\* a fetchConversations or createConversation of client c is under way
ConversationOpInFlight(c) == fetches[c] # {} \/ cc[c].pc \in {"check", "insert", "inserted"}

\* C27: the step that ends a fetchConversations (its response applied,
\* successful or failed) or a createConversation (existing row found, insert
\* answered or failed) leaves loading = false; with no conversation
\* operation in flight loading is false; and loading = true always leads to
\* loading = false.
C27_LoadingEnds ==
    /\ [][\A c \in Clients :
            /\ (\E r \in fetches[c] : r.phase = "answered" /\ r \notin fetches'[c])
               => ~st'[c].loading
            /\ (cc[c].pc # "done" /\ cc'[c].pc = "done") => ~st'[c].loading]_vars
    /\ [](\A c \in Clients : ~ConversationOpInFlight(c) => ~st[c].loading)
    /\ \A c \in Clients : st[c].loading ~> ~st[c].loading

\* a fetch of c2 failed and its createConversation failed, nothing is in
\* flight any more and loading is false
C27_Witness ==
    \E c \in Clients :
        /\ cc[c].pc = "done" /\ cc[c].err = "unavailable" /\ fetches[c] = {}
        /\ applied[c] > 0 /\ st[c].conversations = <<>>
        /\ \E r \in convs : UserOf(c) \in r.participants
        /\ ~st[c].loading

\* ------------------------------------------- handleCreateConversation's result

\* C28: handleCreateConversation ends with a result, never an error: null
\* exactly when createConversation gave null, and then without a send; a
\* send of an initial message starts only as the first step of a call whose
\* createConversation gave a conversation, so at most once per call; and the
\* list is refreshed by the call only when its send has appended and touched.
C28_StartResult ==
    [][\A c \in Clients :
          /\ (hc[c].pc = "idle" /\ hc'[c].pc # "idle")
             => /\ hc'[c].conv = cc[c].ret
                /\ cc[c].ret = NoId => (hc'[c].pc = "done" /\ sc' = sc)
          /\ (hc[c].pc # "done" /\ hc'[c].pc = "done")
             => /\ hc'[c].ret = hc'[c].conv
                /\ hc'[c].ret = NoId \/ hc'[c].ret \in 1..(nextId - 1)
          /\ (sc[c].pc = "idle" /\ sc'[c].pc # "idle" /\ sc'[c].caller = "start")
             => hc[c].pc = "idle" /\ hc'[c].pc = "sending" /\ cc[c].ret # NoId
          /\ \A r \in fetches'[c] :
                (r.trigger = "start" /\ r.seq > nreq[c])
                => /\ hc[c].pc = "sending" /\ sc[c].pc = "sent"
                   /\ sc[c].msg \in msgs /\ sc[c].msg.conversationId = hc[c].conv]_vars

\* createConversation failed for a call that came with an initial message:
\* the call returned null and no message was sent; the one message in the
\* store is that of an earlier call, which refreshed the list after it
C28_Witness ==
    \E c \in Clients :
        /\ hc[c].pc = "done" /\ hc[c].initialMessage /\ hc[c].ret = NoId
        /\ sc[c].pc = "idle"
        /\ Cardinality(msgs) = 1
        /\ \E m \in msgs : m.senderId = UserOf(c) /\ m.conversationId \in KnownIds(c)
        /\ \E r \in convs : r.id = FirstConversation.id /\ r.unreadCount = 1

\* ------------------------------------------------------ the change channel

\* c2 creates conversations with u1; c1 handles the notifications while its
\* user signs out, in and changes and its hook is torn down and mounted again
ChannelNext ==
    \/ \E c \in Viewers : SignOut(c)
    \/ \E c \in Viewers : SignIn(c)
    \/ \E c \in Viewers : UserChange(c)
    \/ \E c \in Viewers : Unmount(c)
    \/ \E c \in Viewers : Mount(c)
    \/ \E c \in Viewers : OnChange(c)
    \/ \E c \in Viewers : \E r \in fetches[c] : FetchServe(c, r, TRUE)
    \/ \E c \in Viewers : \E r \in fetches[c] : FetchApply(c, r)
    \/ \E c \in Writers, p \in Props : CreateStart(c, "u1", p)
    \/ \E c \in Writers : CreateCheck(c, FALSE)
    \/ \E c \in Writers : CreateInsert(c, FALSE)
    \/ \E c \in Writers : CreateInsertResp(c)
    \/ \E c \in Writers : CreateReturn(c)

SpecChannel == InitMsg /\ [][ChannelNext]_vars

\* C29: a client has at most one channel open; it has one only while its hook
\* is mounted with a signed-in user; the step in which the user signs out or
\* the hook is torn down leaves no channel, and a change of user leaves
\* exactly one; and a notification starts a fetch only on a client that has
\* its channel, so none after teardown.
C29_OneChannel ==
    [][\A c \in Clients :
          /\ channels'[c] <= 1
          /\ channels'[c] = 1 <=> chan'[c] # "none"
          /\ chan'[c] # "none" => (signedIn'[c] /\ mounted'[c])
          /\ ((signedIn[c] /\ ~signedIn'[c]) \/ (mounted[c] /\ ~mounted'[c]))
             => channels'[c] = 0
          /\ \A r \in fetches'[c] :
                (r.trigger = "notify" /\ r.seq > nreq[c])
                => (channels[c] = 1 /\ signedIn[c] /\ mounted[c])]_vars

\* the user of c1 signed out while a notification for c1 was still to be
\* handled: the channel is gone, the notification is not handled
C29_Witness ==
    \E c \in Clients :
        /\ mounted[c] /\ ~signedIn[c] /\ channels[c] = 0 /\ chan[c] = "none"
        /\ feed[c] > 0
        /\ ~ \E r \in fetches[c] : r.trigger = "notify"

=============================================================================
